---- MODULE Spec2Model ----
(***************************************************************************)
(* A model of the mongoclaw runtime: leader election and the runtime's     *)
(* watcher start-up, the change-stream watcher with its resume tokens,     *)
(* the Redis-stream queue with the worker loop and the executor, and the   *)
(* result writer.  Each subsystem has its own variables, initial           *)
(* predicate, actions and specification; a subsystem's specification       *)
(* keeps the variables of the others parked at a fixed value.              *)
(***************************************************************************)
EXTENDS Integers, Sequences, FiniteSets, TLC

VARIABLES
    \* ---- leader election (watcher/leader_election.py) and core/runtime.py
    now,               \* the wall clock (datetime.utcnow()), in ticks
    lease,             \* the lock document of lock_name, or NoLease
    is_leader,         \* LeaderElection._is_leader, per replica
    epc,               \* where each replica's election API/loop stands
    was_leader,        \* history: the replica has held leadership
    on_demoted_fired,  \* history: on_demoted fired since the last election
    watcher_running,   \* ChangeStreamWatcher._running of each replica's Runtime
    \* ---- change-stream watcher of one namespace (watcher/change_stream.py)
    feed_len,          \* change events 1..feed_len exist in the change feed
    matching,          \* the events some enabled agent matches
    token_store,       \* ResumeTokenStore: the saved token (0: none)
    wpc,               \* where the namespace's watch task stands
    resume_after,      \* options["resume_after"] of _watch_loop (0: unset)
    cursor,            \* the open cursor has delivered the events up to here
    cur_event,         \* the event _handle_change is working on (0: none)
    retry_count,       \* retry_count of _watch_loop
    enqueued_events,   \* history: events whose work item was enqueued
    token_saved_for,   \* history: events whose resume token was saved
    \* ---- the target document and the agent's execution config
    doc_version,       \* _mongoclaw_version of the target document, or Absent
    idem_keys,         \* the keys in the idempotency collection
    consistency_mode,  \* agent.execution.consistency_mode
    deduplicate,       \* agent.execution.deduplicate
    \* ---- the Redis stream, its consumer group and the workers
    stream,            \* the entries of the work stream, in XADD order
    last_delivered_id, \* the group's last-delivered-id (0: nothing read)
    pending,           \* the group's PEL: entry -> owning consumer, or "none"
    retried,           \* history: entries whose retry copy was enqueued
    dlq,               \* entries whose work item was appended to the DLQ
    wk_pc,             \* where each worker's run loop stands
    batch,             \* the rest of the worker's dequeued batch, head first
    shutdown_event,    \* the pool's shutdown event
    outcome,           \* the WorkItemResult of each entry's execution
    ai_called,         \* per entry: the store's agent state when _call_ai ran
    agent_state,       \* the agent in the agent store
    agent_cache,       \* Executor._agent_cache of each worker
    \* ---- calls of ResultWriter.write, step by step (result/writer.py)
    wr_pc,             \* where each worker's call of write() stands
    wr_item,           \* the stream entry whose item the call writes (0: none)
    wr_dup,            \* history: the item's key was on record at the call
    wr_ret,            \* the reason code the worker's last call returned
    wr_calls,          \* the number of calls of write() begun so far
    writebacks,        \* history: the updates that matched, in order
    \* ---- the watcher's watch tasks and their refresh (change_stream.py)
    targets,           \* the namespaces the enabled agents in the store watch
    config_events,     \* agent-config changes the config watch has yet to see
    watch_tasks,       \* ChangeStreamWatcher._watch_tasks: ns -> task (0: none)
    live_tasks,        \* the watch loops that run, each with its cursor
    next_task,         \* the number of watch tasks created so far
    rf_pc,             \* where each caller of refresh_watches stands
    rf_remove,         \* to_remove of the caller's refresh_watches
    rf_add,            \* to_add of the caller's refresh_watches
    rf_ns,             \* the namespace whose _start_watch awaits its token
    ns_feed,           \* per namespace: change events 1..ns_feed[ns] exist
    ns_token,          \* per namespace: the stored resume token (0: none)
    highest_saved,     \* history: per namespace, the highest token saved
    \* ---- the dispatcher (dispatcher/agent_dispatcher.py)
    dsp_config,        \* the settings and agent config dispatch reads
    recent_keys,       \* AgentDispatcher._recent_keys
    dsp_stream,        \* the work items enqueued on the target stream
    dsp_dlq,           \* the work items moved to the DLQ at admission
    dsp_counts,        \* the dispatcher's counters (get_stats)
    dsp_log,           \* history: the calls of dispatch, with what they did
    \* ---- one worker's polling loop (worker/agent_worker.py, run)
    sch_config,        \* the worker settings the loop reads
    stream_cursor,     \* AgentWorker._stream_cursor
    sch_pc,            \* where the loop stands
    ordered_streams,   \* ordered_streams of the running cycle
    sch_idx,           \* idx of the for loop over ordered_streams
    sch_cur,           \* history: what the running cycle did so far
    sch_log,           \* history: the last cycles that ran to their end
    sch_errors,        \* history: the errors the loop has caught
    sch_shutdown,      \* shutdown_event.is_set()
    \* ---- the failure budget of one agent (worker/executor.py)
    ex_now,            \* time.monotonic(), in ticks
    failure_events,    \* _agent_failure_events[agent_id]
    quarantine_until,  \* _agent_quarantine_until[agent_id] (0: no entry)
    ex_cache,          \* per worker: enabled of its executor's cached agent
    ex_pc,             \* where each worker's execute stands
    ex_start_q,        \* history: the quarantine check of the running execute
    ex_started,        \* the number of calls of execute so far
    ex_runs,           \* history: the calls of execute that returned
    budget_log,        \* history: the failures _record_agent_outcome recorded
    \* ---- policy and writeback of one execution (worker/executor.py)
    pol_agent,         \* the agent's consistency mode and policy
    pol_client,        \* the executor has a result writer or a client
    pol_pc,            \* where _execute_pipeline stands after the parse
    pol_matched,       \* matched of _evaluate_policy
    pol_action,        \* the action _evaluate_policy returned
    pol_tagged,        \* the tag was added to the parsed result
    pol_updates,       \* the update_one calls issued to the target document
    pol_result,        \* the WorkItemResult the pipeline returned
    \* ---- one stream with its group, and the DLQ (queue/redis_stream.py)
    q_stream,          \* the entries of the stream, oldest first
    q_last,            \* the group's last-delivered id
    q_pending,         \* the group's pending entries list
    q_batch,           \* the entries dequeue returned, not yet handled
    q_dlq,             \* the items on the DLQ stream
    q_poison,          \* the poison counter
    q_deliveries,      \* history: the work item's deliveries, in order
    q_reads,           \* history: what each call of dequeue read and returned
    \* ---- shutdown of the pool with one worker (worker/pool.py)
    sd_now,            \* the time, in ticks
    sd_signal_at,      \* when shutdown_event was set (Absent: not set)
    sd_pool,           \* where WorkerPool.shutdown stands
    sd_pc,             \* where the worker stands with its item
    sd_item,           \* the state of the item the worker last took
    sd_exec_left,      \* ticks until executor.execute returns
    sd_sleep_left,     \* ticks until the retry delay is over
    sd_taken,          \* the number of items the worker has taken
    sd_at_signal,      \* history: what the worker did when the event was set
    sd_woke_at,        \* history: when the retry sleep ended (Absent: never)
    sd_done_at,        \* history: when the item became terminal (Absent)
    \* ---- the stored version of one agent (agents/store.py)
    st_version,        \* the version field of the agent's document
    st_copy,           \* per caller: version of the AgentConfig it holds (0: none)
    st_log,            \* history: the updates, enables and disables done
    \* ---- the in-flight counter of one agent stream (worker/agent_worker.py)
    if_cap,            \* settings.worker.max_in_flight_per_agent_stream
    if_counts,         \* _stream_inflight_counts.get(stream, 0)
    if_queue,          \* the number of new entries of the stream
    if_pc,             \* where each worker's run() stands with the stream
    if_left,           \* the items of the worker's batch not yet handled
    if_skips,          \* history: the saturation skips recorded
    \* ---- one agent writing back to the collection it watches
    lp_cfg,            \* the agent: watch.operations, deduplicate, metadata
    lp_doc,            \* the target document as stored
    lp_events,         \* the change events the watcher has not handled yet
    lp_keys,           \* AgentDispatcher._recent_keys
    lp_idem,           \* the keys recorded in the idempotency collection
    lp_stream,         \* the work items enqueued and not yet executed
    lp_user,           \* the user has made the mutation
    lp_runs,           \* history: executions started by the mutation
    \* ---- a strict writeback with the document-hash guard (result/writer.py)
    hs_require,        \* execution.require_document_hash_match
    hs_content,        \* the user's fields of the target document
    hs_version,        \* the document's _mongoclaw_version
    hs_item,           \* the work item's source hash and source version
    hs_pc,             \* where write() stands
    hs_ret,            \* the reason code write() returned
    hs_items,          \* the number of work items dispatched
    hs_log,            \* history: the updates applied
    \* ---- the per-agent semaphore of one process (worker/executor.py)
    sm_store_k,        \* execution.max_concurrency of the stored agent
    sm_cached_k,       \* per worker: max_concurrency of the cached agent
    sm_current,        \* _agent_semaphores[agent_id]: the size and the object
    sm_permits,        \* per semaphore object: its free permits
    sm_created,        \* the number of semaphore objects created
    sm_pc,             \* where each worker's execute() stands
    sm_ref,            \* per worker: the semaphore object it was handed
    \* ---- one work item of an agent that gets quarantined
    qr_now,            \* time.monotonic(), in ticks
    qr_until,          \* _agent_quarantine_until.get(agent_id, 0.0)
    qr_item,           \* the work item (its attempt)
    qr_where,          \* where the item is: stream, backoff, dlq or done
    qr_result,         \* the reason of the item's last result
    qr_shorts,         \* history: the item's quarantine short-circuits
    qr_own_failures    \* history: the failures of the item's own pipeline

leaderVars == <<now, lease, is_leader, epc, was_leader, on_demoted_fired,
                watcher_running>>

watcherVars == <<feed_len, matching, token_store, wpc, resume_after, cursor,
                 cur_event, retry_count, enqueued_events, token_saved_for>>

docVars == <<doc_version, idem_keys, consistency_mode, deduplicate>>

workerVars == <<stream, last_delivered_id, pending, retried, dlq, wk_pc,
                batch, shutdown_event, outcome, ai_called, agent_state,
                agent_cache>>

writerVars == <<wr_pc, wr_item, wr_dup, wr_ret, wr_calls, writebacks>>

refreshVars == <<targets, config_events, watch_tasks, live_tasks, next_task,
                 rf_pc, rf_remove, rf_add, rf_ns, ns_feed, ns_token,
                 highest_saved>>

\* The subsystems that the specifications of the first five leave parked.
dispatchVars == <<dsp_config, recent_keys, dsp_stream, dsp_dlq, dsp_counts,
                  dsp_log>>

schedVars == <<sch_config, stream_cursor, sch_pc, ordered_streams, sch_idx,
               sch_cur, sch_log, sch_errors, sch_shutdown>>

execVars == <<ex_now, failure_events, quarantine_until, ex_cache, ex_pc,
              ex_start_q, ex_started, ex_runs, budget_log>>

policyVars == <<pol_agent, pol_client, pol_pc, pol_matched, pol_action,
                pol_tagged, pol_updates, pol_result>>

queueVars == <<q_stream, q_last, q_pending, q_batch, q_dlq, q_poison,
               q_deliveries, q_reads>>

shutVars == <<sd_now, sd_signal_at, sd_pool, sd_pc, sd_item, sd_exec_left,
              sd_sleep_left, sd_taken, sd_at_signal, sd_woke_at, sd_done_at>>

storeVars == <<st_version, st_copy, st_log>>

inflightVars == <<if_cap, if_counts, if_queue, if_pc, if_left, if_skips>>

loopVars == <<lp_cfg, lp_doc, lp_events, lp_keys, lp_idem, lp_stream,
               lp_user, lp_runs>>

hashVars == <<hs_require, hs_content, hs_version, hs_item, hs_pc, hs_ret,
               hs_items, hs_log>>

semVars == <<sm_store_k, sm_cached_k, sm_current, sm_permits, sm_created,
              sm_pc, sm_ref>>

quarantineVars == <<qr_now, qr_until, qr_item, qr_where, qr_result,
                     qr_shorts, qr_own_failures>>

fourthVars == <<inflightVars, loopVars, hashVars, semVars, quarantineVars>>

thirdVars == <<schedVars, execVars, policyVars, queueVars, shutVars,
               storeVars>>

laterVars == <<refreshVars, dispatchVars, thirdVars, fourthVars>>

vars == <<leaderVars, watcherVars, docVars, workerVars, writerVars,
          laterVars>>

(***************************************************************************)
(* Leader election                                                         *)
(***************************************************************************)
Replicas == {"A", "B"}

\* The clock stops at MaxTime (a bound of the model).
MaxTime == 5

\* LeaderElection.DEFAULT_LEASE_DURATION, in ticks of ten seconds.
LeaseDuration == 3

NoLease == [holder |-> "none", expires_at |-> 0]

LeaderInit ==
    /\ now = 0
    /\ lease = NoLease
    /\ is_leader = [r \in Replicas |-> FALSE]
    /\ epc = [r \in Replicas |-> "idle"]
    /\ was_leader = [r \in Replicas |-> FALSE]
    /\ on_demoted_fired = [r \in Replicas |-> FALSE]
    /\ watcher_running = [r \in Replicas |-> FALSE]

LeaderParked == LeaderInit

otherThanLeader ==
    <<watcherVars, docVars, workerVars, writerVars, laterVars>>

otherThanWatcher ==
    <<leaderVars, docVars, workerVars, writerVars, laterVars>>

otherThanWorker == <<leaderVars, watcherVars, writerVars, laterVars>>

otherThanWriter == <<leaderVars, watcherVars, laterVars>>

\* The change feed holds at most MaxEvents events (a bound of the model).
MaxEvents == 3

\* max_retries of _watch_loop.
MaxRetries == 5

WatcherInit ==
    /\ feed_len = 0
    /\ matching = {}
    /\ token_store = 0
    /\ wpc = "down"
    /\ resume_after = 0
    /\ cursor = 0
    /\ cur_event = 0
    /\ retry_count = 0
    /\ enqueued_events = {}
    /\ token_saved_for = {}

WatcherParked == WatcherInit

\* The target document has no _mongoclaw_version field.
Absent == -1

ConsistencyModes == {"eventual", "strict_post_commit", "shadow"}

\* The worker specification runs the agent with deduplication on, its
\* default, on a document that has no version field yet.
WorkerDocInit ==
    /\ doc_version = Absent
    /\ idem_keys = {}
    /\ consistency_mode \in ConsistencyModes
    /\ deduplicate = TRUE

DocParked ==
    /\ doc_version = Absent
    /\ idem_keys = {}
    /\ consistency_mode = "eventual"
    /\ deduplicate = TRUE

Workers == {"w1", "w2"}

\* The work stream holds at most MaxEntries entries (a bound of the model).
MaxEntries == 2

\* The count of one XREADGROUP (a bound of the model; the code takes it
\* from worker.batch_size and worker.fair_stream_batch_size).
DequeueCount == 2

\* agent.execution.max_retries of the modelled agent (a bound of the model).
AgentMaxRetries == 0

Entries == 1..MaxEntries

\* No execution result yet.
NoResult ==
    [success |-> FALSE, written |-> FALSE, lifecycle_state |-> "none",
     reason |-> "none", update_reached |-> FALSE]

WorkerInit ==
    /\ stream = <<>>
    /\ last_delivered_id = 0
    /\ pending = [m \in Entries |-> "none"]
    /\ retried = {}
    /\ dlq = {}
    /\ wk_pc = [w \in Workers |-> "poll"]
    /\ batch = [w \in Workers |-> <<>>]
    /\ shutdown_event = FALSE
    /\ outcome = [m \in Entries |-> NoResult]
    /\ ai_called = [m \in Entries |-> "no"]
    /\ agent_state = "enabled"
    /\ agent_cache = [w \in Workers |-> "none"]

WorkerParked == WorkerInit

\* At most MaxCalls calls of write() are begun (a bound of the model).
MaxCalls == 4

\* The writer specification runs the two modes that reach the writer.
WriterDocInit ==
    /\ doc_version \in {Absent, 0}
    /\ idem_keys = {}
    /\ consistency_mode \in {"eventual", "strict_post_commit"}
    /\ deduplicate \in BOOLEAN

WriterInit ==
    /\ wr_pc = [w \in Workers |-> "idle"]
    /\ wr_item = [w \in Workers |-> 0]
    /\ wr_dup = [w \in Workers |-> FALSE]
    /\ wr_ret = [w \in Workers |-> "none"]
    /\ wr_calls = 0
    /\ writebacks = <<>>

WriterParked == WriterInit

\* The namespaces agents can watch (one: _watch_tasks, the token store
\* and the feeds are keyed by namespace and no step looks at two), and the
\* two tasks that call refresh_watches: the supervisor's _refresh_loop and
\* _watch_agent_configs.
Namespaces == {"db.a"}

Refreshers == {"periodic", "config"}

\* Agents are created, enabled, disabled or deleted at most MaxStoreChanges
\* times, and at most MaxTasks watch tasks are created (bounds of the model).
MaxStoreChanges == 2

MaxTasks == 3

\* Each namespace's change feed holds at most MaxFeed events (a bound of
\* the model).
MaxFeed == 2

\* The watcher after start() with no enabled agent in the store.
RefreshInit ==
    /\ targets = {}
    /\ config_events = 0
    /\ watch_tasks = [ns \in Namespaces |-> 0]
    /\ live_tasks = {}
    /\ next_task = 0
    /\ rf_pc = [r \in Refreshers |-> "idle"]
    /\ rf_remove = [r \in Refreshers |-> {}]
    /\ rf_add = [r \in Refreshers |-> {}]
    /\ rf_ns = [r \in Refreshers |-> "none"]
    /\ ns_feed = [ns \in Namespaces |-> 0]
    /\ ns_token = [ns \in Namespaces |-> 0]
    /\ highest_saved = [ns \in Namespaces |-> 0]

RefreshParked == RefreshInit

\* dispatch is called at most MaxDispatches times, and the recent-keys set
\* counts as over its size once it holds more than MaxCacheSize keys, the
\* model's stand-in for _max_cache_size (bounds of the model).
MaxDispatches == 2

MaxCacheSize == 1

OverflowPolicies == {"drop", "dlq", "defer"}

NoCounts ==
    [dispatched |-> 0, deduplicated |-> 0, dropped |-> 0, deferred |-> 0,
     dlq |-> 0, forced_enqueue |-> 0]

\* A dispatcher as constructed, under any settings of the backpressure
\* switch and the overflow policy and any agent.execution.deduplicate.
DispatchInit ==
    /\ dsp_config \in [backpressure_enabled : BOOLEAN,
                       overflow_policy : OverflowPolicies,
                       deduplicate : BOOLEAN]
    /\ recent_keys = {}
    /\ dsp_stream = <<>>
    /\ dsp_dlq = {}
    /\ dsp_counts = NoCounts
    /\ dsp_log = <<>>

DispatchParked ==
    /\ dsp_config = [backpressure_enabled |-> TRUE,
                     overflow_policy |-> "defer",
                     deduplicate |-> TRUE]
    /\ recent_keys = {}
    /\ dsp_stream = <<>>
    /\ dsp_dlq = {}
    /\ dsp_counts = NoCounts
    /\ dsp_log = <<>>

\* The streams one worker is subscribed to, in the order of its list.
Streams == <<"s1", "s2", "s3">>

StreamCount == Len(Streams)

\* The polling loop catches at most MaxStreamErrors errors (a bound of the
\* model).
MaxStreamErrors == 2

\* fair_streams_per_cycle: 0 stands for None.
StreamLimits == {0, 1, 2}

NoCycle == [polled |-> {}, failed |-> {}, skipped |-> {}]

\* A worker as constructed, under any settings of fair scheduling, of the
\* streams-per-cycle cap and of the in-flight cap per stream.
SchedInit ==
    /\ sch_config \in [fair_scheduling_enabled : BOOLEAN,
                       fair_streams_per_cycle : StreamLimits,
                       in_flight_cap : BOOLEAN]
    /\ stream_cursor = 0
    /\ sch_pc = "while"
    /\ ordered_streams = <<>>
    /\ sch_idx = 0
    /\ sch_cur = NoCycle
    /\ sch_log = <<>>
    /\ sch_errors = 0
    /\ sch_shutdown = FALSE

SchedParked ==
    /\ sch_config = [fair_scheduling_enabled |-> TRUE,
                     fair_streams_per_cycle |-> 0,
                     in_flight_cap |-> FALSE]
    /\ stream_cursor = 0
    /\ sch_pc = "while"
    /\ ordered_streams = <<>>
    /\ sch_idx = 0
    /\ sch_cur = NoCycle
    /\ sch_log = <<>>
    /\ sch_errors = 0
    /\ sch_shutdown = FALSE

ExecWorkers == {"w1", "w2"}

\* The executor's clock stops at MaxClock and execute is called at most
\* MaxExecs times (bounds of the model).
MaxClock == 4

MaxExecs == 4

\* agent_error_budget_window_seconds, agent_error_budget_max_failures and
\* agent_quarantine_seconds, settings, in ticks (bounds of the model).
BudgetWindow == 2

BudgetMaxFailures == 2

QuarantineTicks == 2

\* A process whose workers' executors have cached the agent, each as it was
\* when that executor first loaded it.
ExecInit ==
    /\ ex_now = 0
    /\ failure_events = <<>>
    /\ quarantine_until = 0
    /\ ex_cache \in [ExecWorkers -> BOOLEAN]
    /\ ex_pc = [w \in ExecWorkers |-> "idle"]
    /\ ex_start_q = [w \in ExecWorkers |-> FALSE]
    /\ ex_started = 0
    /\ ex_runs = {}
    /\ budget_log = <<>>

ExecParked ==
    /\ ex_now = 0
    /\ failure_events = <<>>
    /\ quarantine_until = 0
    /\ ex_cache = [w \in ExecWorkers |-> TRUE]
    /\ ex_pc = [w \in ExecWorkers |-> "idle"]
    /\ ex_start_q = [w \in ExecWorkers |-> FALSE]
    /\ ex_started = 0
    /\ ex_runs = {}
    /\ budget_log = <<>>

\* agent.policy: None, or a PolicyConfig (has_condition: condition is set).
NoPolicy == [has_condition |-> FALSE, action |-> "none",
             fallback_action |-> "none", simulation_mode |-> FALSE]

Policies ==
    {NoPolicy} \cup
    [has_condition : BOOLEAN, action : {"enrich", "block", "tag"},
     fallback_action : {"skip", "enrich"}, simulation_mode : BOOLEAN]

NoPipelineResult == [success |-> FALSE, lifecycle_state |-> "none",
             written |-> FALSE, reason |-> "none"]

\* _execute_pipeline with a parsed provider response in hand, for any agent.
PolicyInit ==
    /\ pol_agent \in [consistency_mode : ConsistencyModes, policy : Policies]
    /\ pol_client \in BOOLEAN
    /\ pol_pc = "parsed"
    /\ pol_matched = TRUE
    /\ pol_action = "none"
    /\ pol_tagged = FALSE
    /\ pol_updates = 0
    /\ pol_result = NoPipelineResult

PolicyParked ==
    /\ pol_agent = [consistency_mode |-> "eventual", policy |-> NoPolicy]
    /\ pol_client = TRUE
    /\ pol_pc = "parsed"
    /\ pol_matched = TRUE
    /\ pol_action = "none"
    /\ pol_tagged = FALSE
    /\ pol_updates = 0
    /\ pol_result = NoPipelineResult

\* The stream holds at most MaxQueueEntries entries, the work item is
\* delivered at most MaxDeliveries times and dequeue is called at most
\* MaxReads times (bounds of the model).
MaxQueueEntries == 3

MaxDeliveries == 4

MaxReads == 3

\* An empty stream whose consumer group exists, and an empty DLQ.
QueueInit ==
    /\ q_stream = <<>>
    /\ q_last = 0
    /\ q_pending = {}
    /\ q_batch = <<>>
    /\ q_dlq = <<>>
    /\ q_poison = 0
    /\ q_deliveries = <<>>
    /\ q_reads = <<>>

QueueParked == QueueInit

\* shutdown_timeout, the longest run of executor.execute
\* (execution.timeout_seconds) and the longest retry delay
\* (retry_max_delay), settings, in ticks; the clock stops at MaxShutClock
\* and the worker takes at most MaxShutItems items (bounds of the model).
ShutdownTimeout == 2

MaxExecTicks == 3

MaxBackoffTicks == 2

MaxShutClock == 6

MaxShutItems == 2

\* A started pool whose worker is between two items.
ShutInit ==
    /\ sd_now = 0
    /\ sd_signal_at = Absent
    /\ sd_pool = "running"
    /\ sd_pc = "idle"
    /\ sd_item = "none"
    /\ sd_exec_left = 0
    /\ sd_sleep_left = 0
    /\ sd_taken = 0
    /\ sd_at_signal = "none"
    /\ sd_woke_at = Absent
    /\ sd_done_at = Absent

ShutParked == ShutInit

StoreCallers == {"c1", "c2"}

\* The agent is updated, enabled or disabled at most MaxStoreWrites times
\* (a bound of the model).
MaxStoreWrites == 3

\* The agent as created: AgentConfig.version has the default 1.
StoreInit ==
    /\ st_version = 1
    /\ st_copy = [c \in StoreCallers |-> 0]
    /\ st_log = <<>>

StoreParked == StoreInit

ThirdParked ==
    /\ SchedParked /\ ExecParked /\ PolicyParked /\ QueueParked
    /\ ShutParked /\ StoreParked

firstVars == <<leaderVars, watcherVars, docVars, workerVars, writerVars>>

\* The workers of one process (WorkerPool builds pool_size of them).
InflightWorkers == {"w1", "w2", "w3"}

\* The values of max_in_flight_per_agent_stream the model runs with.
InflightCaps == {1, 2}

\* The stream receives at most MaxInflightItems entries (a bound of the
\* model).
MaxInflightItems == 4

\* _dequeue_count_for_cycle: a dequeue returns at most this many items
\* (a bound of the model).
InflightBatch == 2

\* At most MaxSkips saturation skips are counted (a bound of the model).
MaxSkips == 2

\* The module globals of agent_worker.py as imported, and workers that
\* have entered run().
InflightInit ==
    /\ if_cap \in InflightCaps
    /\ if_counts = 0
    /\ if_queue = 0
    /\ if_pc = [w \in InflightWorkers |-> "top"]
    /\ if_left = [w \in InflightWorkers |-> 0]
    /\ if_skips = 0

InflightParked ==
    /\ if_cap = 1
    /\ if_counts = 0
    /\ if_queue = 0
    /\ if_pc = [w \in InflightWorkers |-> "top"]
    /\ if_left = [w \in InflightWorkers |-> 0]
    /\ if_skips = 0

\* Work item ids are uuids; the model draws them from LoopIds values and
\* takes one again only when nothing refers to it any more (a bound of the
\* model).
LoopIds == 5

\* AgentDispatcher._max_cache_size, scaled down (a bound of the model).
LoopCacheSize == 2

\* Executions are counted up to MaxChain (a bound of the model).
MaxChain == 3

\* The collection before the user's write: no document.
NoDocument == [content |-> 0, enriched |-> FALSE, stamp |-> 0]

LoopAgents ==
    [watch_updates : BOOLEAN, deduplicate : BOOLEAN,
     include_metadata : BOOLEAN]

LoopInit ==
    /\ lp_cfg \in LoopAgents
    /\ lp_doc = NoDocument
    /\ lp_events = <<>>
    /\ lp_keys = {}
    /\ lp_idem = {}
    /\ lp_stream = <<>>
    /\ lp_user = FALSE
    /\ lp_runs = 0

LoopParked ==
    /\ lp_cfg = [watch_updates |-> TRUE, deduplicate |-> TRUE,
                 include_metadata |-> TRUE]
    /\ lp_doc = NoDocument
    /\ lp_events = <<>>
    /\ lp_keys = {}
    /\ lp_idem = {}
    /\ lp_stream = <<>>
    /\ lp_user = FALSE
    /\ lp_runs = 0

\* The user changes the document at most MaxUserWrites times, other
\* writebacks raise its version at most MaxOtherWrites times, and at most
\* MaxHashItems work items are dispatched (bounds of the model).
MaxUserWrites == 2

MaxOtherWrites == 1

MaxHashItems == 2

NoHashItem == [source_document_hash |-> <<"none">>, source_version |-> 0]

\* A strict_post_commit agent, with or without the hash guard, and its
\* target document as the user wrote it.
HashInit ==
    /\ hs_require \in BOOLEAN
    /\ hs_content = 0
    /\ hs_version = 0
    /\ hs_item = NoHashItem
    /\ hs_pc = "idle"
    /\ hs_ret = "none"
    /\ hs_items = 0
    /\ hs_log = <<>>

HashParked ==
    /\ hs_require = FALSE
    /\ hs_content = 0
    /\ hs_version = 0
    /\ hs_item = NoHashItem
    /\ hs_pc = "idle"
    /\ hs_ret = "none"
    /\ hs_items = 0
    /\ hs_log = <<>>

SemWorkers == {"w1", "w2", "w3"}

\* The values of execution.max_concurrency the model runs with.
SemSizes == {1, 2}

\* At most MaxSemaphores semaphore objects are created (a bound of the
\* model).
MaxSemaphores == 3

\* No entry in _agent_semaphores.
NoSemaphore == [size |-> 0, object |-> 0]

\* The module global _agent_semaphores as imported, executors with empty
\* agent caches.
SemInit ==
    /\ sm_store_k \in SemSizes
    /\ sm_cached_k = [w \in SemWorkers |-> 0]
    /\ sm_current = NoSemaphore
    /\ sm_permits = [s \in 1..MaxSemaphores |-> 0]
    /\ sm_created = 0
    /\ sm_pc = [w \in SemWorkers |-> "idle"]
    /\ sm_ref = [w \in SemWorkers |-> 0]

SemParked ==
    /\ sm_store_k = 1
    /\ sm_cached_k = [w \in SemWorkers |-> 0]
    /\ sm_current = NoSemaphore
    /\ sm_permits = [s \in 1..MaxSemaphores |-> 0]
    /\ sm_created = 0
    /\ sm_pc = [w \in SemWorkers |-> "idle"]
    /\ sm_ref = [w \in SemWorkers |-> 0]

\* The clock of the quarantine specification stops at MaxQuarantineClock,
\* and the item's short-circuits and pipeline failures are counted up to
\* MaxItemFailures (bounds of the model).
MaxQuarantineClock == 4

MaxItemFailures == 2

\* A work item as dispatched (attempt 0) on the stream of an agent that is
\* not quarantined.
QuarantineInit ==
    /\ qr_now = 0
    /\ qr_until = 0
    /\ qr_item = [attempt |-> 0]
    /\ qr_where = "stream"
    /\ qr_result = "none"
    /\ qr_shorts = 0
    /\ qr_own_failures = 0

QuarantineParked == QuarantineInit

FourthParked ==
    /\ InflightParked
    /\ LoopParked
    /\ HashParked
    /\ SemParked
    /\ QuarantineParked

LaterParked ==
    RefreshParked /\ DispatchParked /\ ThirdParked /\ FourthParked

\* Everything the specifications of this last group leave parked.
EarlierParked ==
    /\ LeaderParked /\ WatcherParked /\ DocParked /\ WorkerParked
    /\ WriterParked /\ RefreshParked /\ DispatchParked /\ ThirdParked

earlierVars == <<firstVars, refreshVars, dispatchVars, thirdVars>>

otherThanInflight == <<earlierVars, loopVars, hashVars, semVars,
    quarantineVars>>

InflightRest == EarlierParked /\ LoopParked /\ HashParked /\ SemParked /\
    QuarantineParked

otherThanLoop == <<earlierVars, inflightVars, hashVars, semVars,
    quarantineVars>>

LoopRest == EarlierParked /\ InflightParked /\ HashParked /\ SemParked /\
    QuarantineParked

otherThanHash == <<earlierVars, inflightVars, loopVars, semVars,
    quarantineVars>>

HashRest == EarlierParked /\ InflightParked /\ LoopParked /\ SemParked /\
    QuarantineParked

otherThanSem == <<earlierVars, inflightVars, loopVars, hashVars,
    quarantineVars>>

SemRest == EarlierParked /\ InflightParked /\ LoopParked /\ HashParked /\
    QuarantineParked

otherThanQuarantine == <<earlierVars, inflightVars, loopVars, hashVars,
    semVars>>

QuarantineRest == EarlierParked /\ InflightParked /\ LoopParked /\
    HashParked /\ SemParked

otherThanRefresh == <<firstVars, dispatchVars, thirdVars, fourthVars>>

otherThanDispatch == <<firstVars, refreshVars, thirdVars, fourthVars>>

otherThanSched ==
    <<firstVars, refreshVars, dispatchVars, execVars, policyVars,
      queueVars, shutVars, storeVars,
      fourthVars>>

otherThanExec ==
    <<firstVars, refreshVars, dispatchVars, schedVars, policyVars,
      queueVars, shutVars, storeVars,
      fourthVars>>

otherThanPolicy ==
    <<firstVars, refreshVars, dispatchVars, schedVars, execVars, queueVars,
      shutVars, storeVars,
      fourthVars>>

otherThanQueue ==
    <<firstVars, refreshVars, dispatchVars, schedVars, execVars,
      policyVars, shutVars, storeVars,
      fourthVars>>

otherThanShut ==
    <<firstVars, refreshVars, dispatchVars, schedVars, execVars,
      policyVars, queueVars, storeVars,
      fourthVars>>

otherThanStore ==
    <<firstVars, refreshVars, dispatchVars, schedVars, execVars,
      policyVars, queueVars, shutVars,
      fourthVars>>

\* The filter of _try_acquire's update_one: the lock document exists and is
\* ours or expired.
AcquireFilterMatches(r) ==
    /\ lease # NoLease
    /\ (lease.holder = r \/ lease.expires_at < now)

\* _try_acquire: the conditional upsert.  With no lock document the upsert
\* inserts one; with a document the filter does not match, the insert hits
\* the unique index on lock_name (DuplicateKeyError) and nothing changes.
\* dbOk = FALSE is any other error of the call, which is logged.
TryAcquire(r, dbOk) ==
    IF dbOk /\ (lease = NoLease \/ AcquireFilterMatches(r))
    THEN /\ lease' = [holder |-> r, expires_at |-> now + LeaseDuration]
         /\ is_leader' = [is_leader EXCEPT ![r] = TRUE]
         /\ was_leader' = [was_leader EXCEPT ![r] = TRUE]
         /\ on_demoted_fired' =
                IF is_leader[r] THEN on_demoted_fired
                ELSE [on_demoted_fired EXCEPT ![r] = FALSE]
    ELSE UNCHANGED <<lease, is_leader, was_leader, on_demoted_fired>>

\* _handle_lost_leadership: clear the flag and fire on_demoted, once.
HandleLostLeadership(r) ==
    /\ is_leader' = [is_leader EXCEPT ![r] = FALSE]
    /\ on_demoted_fired' =
           IF is_leader[r] THEN [on_demoted_fired EXCEPT ![r] = TRUE]
           ELSE on_demoted_fired

\* start(): one immediate _try_acquire, then the election loop runs.
ElectionStart(r) ==
    /\ epc[r] \in {"idle", "stopped"}
    /\ \E dbOk \in BOOLEAN : TryAcquire(r, dbOk)
    /\ epc' = [epc EXCEPT ![r] = "loop"]
    /\ UNCHANGED <<now, watcher_running>>
    /\ UNCHANGED otherThanLeader

\* One pass of _election_loop for a replica that is not leader.
LoopAcquire(r) ==
    /\ epc[r] = "loop"
    /\ ~is_leader[r]
    /\ \E dbOk \in BOOLEAN : TryAcquire(r, dbOk)
    /\ UNCHANGED <<now, epc, watcher_running>>
    /\ UNCHANGED otherThanLeader

\* One pass of _election_loop for the leader: _renew matches on the holder
\* alone; when nothing was modified the replica demotes itself.
LoopRenew(r) ==
    /\ epc[r] = "loop"
    /\ is_leader[r]
    /\ IF lease # NoLease /\ lease.holder = r
       THEN /\ lease' = [lease EXCEPT !.expires_at = now + LeaseDuration]
            /\ UNCHANGED <<is_leader, on_demoted_fired>>
       ELSE /\ HandleLostLeadership(r)
            /\ UNCHANGED lease
    /\ UNCHANGED <<now, epc, was_leader, watcher_running>>
    /\ UNCHANGED otherThanLeader

\* _renew raises (the store is unreachable): the loop's except branch logs,
\* sleeps and goes on; _is_leader keeps its value.
LoopRenewError(r) ==
    /\ epc[r] = "loop"
    /\ is_leader[r]
    /\ now < MaxTime
    /\ now' = now + 1
    /\ UNCHANGED <<lease, is_leader, epc, was_leader, on_demoted_fired,
                   watcher_running>>
    /\ UNCHANGED otherThanLeader

\* stop(): the loop task is cancelled; a leader then runs _release, whose
\* first step is the delete_one of its lock document.
ElectionStop(r) ==
    /\ epc[r] = "loop"
    /\ IF is_leader[r]
       THEN /\ lease' = IF lease # NoLease /\ lease.holder = r
                        THEN NoLease ELSE lease
            /\ epc' = [epc EXCEPT ![r] = "releasing"]
       ELSE /\ epc' = [epc EXCEPT ![r] = "stopped"]
            /\ UNCHANGED lease
    /\ UNCHANGED <<now, is_leader, was_leader, on_demoted_fired,
                   watcher_running>>
    /\ UNCHANGED otherThanLeader

\* _release, after the delete_one returned: _handle_lost_leadership.
ReleaseDemote(r) ==
    /\ epc[r] = "releasing"
    /\ HandleLostLeadership(r)
    /\ epc' = [epc EXCEPT ![r] = "stopped"]
    /\ UNCHANGED <<now, lease, was_leader, watcher_running>>
    /\ UNCHANGED otherThanLeader

\* Time passes.
Tick ==
    /\ now < MaxTime
    /\ now' = now + 1
    /\ UNCHANGED <<lease, is_leader, epc, was_leader, on_demoted_fired,
                   watcher_running>>
    /\ UNCHANGED otherThanLeader

\* The TTL index on expires_at (expireAfterSeconds = 0) removes the lock
\* document once it has expired.
TtlSweep ==
    /\ lease # NoLease
    /\ lease.expires_at < now
    /\ lease' = NoLease
    /\ UNCHANGED <<now, is_leader, epc, was_leader, on_demoted_fired,
                   watcher_running>>
    /\ UNCHANGED otherThanLeader

\* Runtime._start_watcher, reached from Runtime.start on every replica: the
\* dispatcher is set and the watcher started; no leader flag is consulted.
StartWatcher(r) ==
    /\ ~watcher_running[r]
    /\ watcher_running' = [watcher_running EXCEPT ![r] = TRUE]
    /\ UNCHANGED <<now, lease, is_leader, epc, was_leader, on_demoted_fired>>
    /\ UNCHANGED otherThanLeader

\* Runtime._stop_watcher, reached from Runtime.stop.
StopWatcher(r) ==
    /\ watcher_running[r]
    /\ watcher_running' = [watcher_running EXCEPT ![r] = FALSE]
    /\ UNCHANGED <<now, lease, is_leader, epc, was_leader, on_demoted_fired>>
    /\ UNCHANGED otherThanLeader

LeaderNext ==
    \/ \E r \in Replicas : ElectionStart(r)
    \/ \E r \in Replicas : LoopAcquire(r)
    \/ \E r \in Replicas : LoopRenew(r)
    \/ \E r \in Replicas : LoopRenewError(r)
    \/ \E r \in Replicas : ElectionStop(r)
    \/ \E r \in Replicas : ReleaseDemote(r)
    \/ \E r \in Replicas : StartWatcher(r)
    \/ \E r \in Replicas : StopWatcher(r)
    \/ Tick
    \/ TtlSweep

InitLeader ==
    /\ LeaderInit /\ WatcherParked /\ DocParked /\ WorkerParked
    /\ WriterParked /\ LaterParked

SpecLeader == InitLeader /\ [][LeaderNext]_vars

\* C5: for one lock_name at most one replica has is_leader = TRUE at any
\* instant.
C5_AtMostOneLeader ==
    Cardinality({r \in Replicas : is_leader[r]}) <= 1

\* C6: whenever a replica's acquire succeeds, every other replica has
\* is_leader = FALSE and, if it has been leader, its on_demoted has fired.
C6_DemotedBeforeAcquire ==
    [][\A b \in Replicas :
         (~is_leader[b] /\ is_leader'[b]) =>
            \A a \in Replicas \ {b} :
               /\ ~is_leader[a]
               /\ (was_leader[a] => on_demoted_fired[a])]_vars

UserWrite ==
    /\ feed_len < MaxEvents
    /\ feed_len' = feed_len + 1
    /\ \E m \in BOOLEAN :
          matching' = IF m THEN matching \cup {feed_len + 1} ELSE matching
    /\ UNCHANGED <<token_store, wpc, resume_after, cursor, cur_event,
                   retry_count, enqueued_events, token_saved_for>>
    /\ UNCHANGED otherThanWatcher

\* _start_watch: read the saved token and create the watch task.
WatchStart ==
    /\ wpc = "down"
    /\ resume_after' = token_store
    /\ retry_count' = 0
    /\ wpc' = "connecting"
    /\ UNCHANGED <<feed_len, matching, token_store, cursor, cur_event,
                   enqueued_events, token_saved_for>>
    /\ UNCHANGED otherThanWatcher

\* coll.watch(pipeline, **options) succeeds: with resume_after the cursor
\* yields the events after that token, without it the events from now on.
WatchOpen ==
    /\ wpc = "connecting"
    /\ cursor' = IF resume_after # 0 THEN resume_after ELSE feed_len
    /\ retry_count' = 0
    /\ wpc' = "open"
    /\ UNCHANGED <<feed_len, matching, token_store, resume_after, cur_event,
                   enqueued_events, token_saved_for>>
    /\ UNCHANGED otherThanWatcher

\* A variant of the reconnect in which the token is not read again: the
\* loop goes on with the options it already has.
TokenKeptOnReconnect(stored) == resume_after

\* "resume_token = await self._token_store.get(...)" and the test after it:
\* a stored token replaces options["resume_after"], none leaves it as it is.
TokenOnReconnect(stored) == IF stored # 0 THEN stored ELSE resume_after

\* PyMongoError from the watch call or the cursor: count it, give up past
\* max_retries, else sleep, read the saved token again and reconnect.  A
\* token read that raises leaves the handler and ends the task.
WatchError ==
    /\ wpc \in {"connecting", "open"}
    /\ retry_count' = retry_count + 1
    /\ IF retry_count + 1 > MaxRetries
       THEN /\ wpc' = "ended"
            /\ UNCHANGED resume_after
       ELSE \E read_ok \in BOOLEAN :
              IF read_ok
              THEN /\ wpc' = "connecting"
                   /\ resume_after' = TokenOnReconnect(token_store)
              ELSE /\ wpc' = "ended"
                   /\ UNCHANGED resume_after
    /\ UNCHANGED <<feed_len, matching, token_store, cursor, cur_event,
                   enqueued_events, token_saved_for>>
    /\ UNCHANGED otherThanWatcher

\* async for change in stream: the next event of the feed arrives.
NextChange ==
    /\ wpc = "open"
    /\ cursor < feed_len
    /\ cur_event' = cursor + 1
    /\ wpc' = "handle"
    /\ UNCHANGED <<feed_len, matching, token_store, resume_after, cursor,
                   retry_count, enqueued_events, token_saved_for>>
    /\ UNCHANGED otherThanWatcher

\* _handle_change up to the token save.  A failing save raises into the
\* handler's except branch, which logs; the loop goes on to the next event.
SaveResumeToken ==
    /\ wpc = "handle"
    /\ \E ok \in BOOLEAN :
          IF ok
          THEN /\ token_store' = cur_event
               /\ token_saved_for' = token_saved_for \cup {cur_event}
               /\ wpc' = "saved"
               /\ UNCHANGED <<cursor, cur_event>>
          ELSE /\ cursor' = cur_event
               /\ cur_event' = 0
               /\ wpc' = "open"
               /\ UNCHANGED <<token_store, token_saved_for>>
    /\ UNCHANGED <<feed_len, matching, resume_after, retry_count,
                   enqueued_events>>
    /\ UNCHANGED otherThanWatcher

\* What _handle_change does with a matched event whose token is saved:
\* dispatch enqueues the work item (ok), or raises, which the handler's
\* except branch logs.
DispatchOutcome(ok) ==
    IF cur_event \in matching /\ ok
    THEN enqueued_events \cup {cur_event}
    ELSE enqueued_events

\* _handle_change after the token save: match and dispatch; either way the
\* handler returns and the loop takes the next event.
MatchAndDispatch ==
    /\ wpc = "saved"
    /\ \E ok \in BOOLEAN : enqueued_events' = DispatchOutcome(ok)
    /\ cursor' = cur_event
    /\ cur_event' = 0
    /\ wpc' = "open"
    /\ UNCHANGED <<feed_len, matching, token_store, resume_after,
                   retry_count, token_saved_for>>
    /\ UNCHANGED otherThanWatcher

\* The process dies (or the watcher is stopped); what was in memory is gone,
\* the token store and the feed stay.
WatcherCrash ==
    /\ wpc # "down"
    /\ wpc' = "down"
    /\ resume_after' = 0
    /\ cursor' = 0
    /\ cur_event' = 0
    /\ retry_count' = 0
    /\ UNCHANGED <<feed_len, matching, token_store, enqueued_events,
                   token_saved_for>>
    /\ UNCHANGED otherThanWatcher

WatcherNext ==
    \/ UserWrite
    \/ WatchStart
    \/ WatchOpen
    \/ WatchError
    \/ NextChange
    \/ SaveResumeToken
    \/ MatchAndDispatch
    \/ WatcherCrash

InitWatcher ==
    /\ WatcherInit /\ LeaderParked /\ DocParked /\ WorkerParked
    /\ WriterParked /\ LaterParked

SpecWatcher == InitWatcher /\ [][WatcherNext]_vars

\* The feed position after which the watcher will next be handed events.
DeliveryPosition ==
    CASE wpc = "open" -> cursor
      [] wpc \in {"handle", "saved"} -> cur_event
      [] wpc = "connecting" ->
            IF resume_after # 0 THEN resume_after ELSE feed_len
      [] OTHER -> IF token_store # 0 THEN token_store ELSE feed_len

\* C4: a matching event whose resume token was saved has its work item
\* enqueued, or is being dispatched right now, or is still ahead of the
\* position the cursor delivers from (so it is delivered again).
C4_SavedEventIsEnqueuedOrRedelivered ==
    \A e \in token_saved_for \cap matching :
       \/ e \in enqueued_events
       \/ (wpc = "saved" /\ cur_event = e)
       \/ DeliveryPosition < e

(***************************************************************************)
(* The result writer's decisions, as functions of the document they meet   *)
(***************************************************************************)
\* A work item dispatched without deduplication carries no idempotency key.
NoKey == 0

\* _extract_source_version: a document without the field has version 0.
ExtractSourceVersion(v) == IF v = Absent THEN 0 ELSE v

\* A variant of BuildUpdateFilterMatches that looks at the _id alone.
FilterOnIdOnly(v, source_version, strict) == TRUE

\* _build_update_filter, evaluated on the target document: without strict
\* mode the _id alone; with it the version must equal the expected one,
\* where expected 0 matches both 0 and a missing field.
BuildUpdateFilterMatches(v, source_version, strict) ==
    IF ~strict THEN TRUE
    ELSE IF source_version = 0 THEN (v = 0 \/ v = Absent)
    ELSE v = source_version

\* A variant of BuildUpdateVersion without the $inc.
VersionLeftAlone(v, strict) == v

\* _build_update, as far as the version goes: $inc by one under strict mode
\* ($inc of a missing field sets it to 1).
BuildUpdateVersion(v, strict) ==
    IF ~strict THEN v
    ELSE IF v = Absent THEN 1 ELSE v + 1

\* A variant of CheckIdempotency that finds no key.
CheckIdempotencyFindsNone(key) == FALSE

\* write()'s first check: the item has a key and the key is on record.
CheckIdempotency(key) == key # NoKey /\ key \in idem_keys

\* _record_idempotency, reached when the item has a key.
RecordIdempotency(key) ==
    IF key # NoKey THEN idem_keys \cup {key} ELSE idem_keys

StrictMode == consistency_mode = "strict_post_commit"

\* What update_one's zero matched_count turns into.
UnmatchedReason(strict) ==
    IF strict THEN "strict_version_conflict" ELSE "document_not_found"

\* Executor._write_result with ResultWriter.write for entry e, the store
\* answering every call: the (written, reason) pair, the document's version
\* and the key collection afterwards, and whether update_one was issued.
WriteResult(e) ==
    IF consistency_mode = "shadow"
    THEN [written |-> FALSE, reason |-> "shadow_mode",
          version |-> doc_version, keys |-> idem_keys,
          update_reached |-> FALSE]
    ELSE IF CheckIdempotency(e.key)
    THEN [written |-> FALSE, reason |-> "idempotency_duplicate",
          version |-> doc_version, keys |-> idem_keys,
          update_reached |-> FALSE]
    ELSE IF ~BuildUpdateFilterMatches(doc_version, e.source_version,
                                      StrictMode)
    THEN [written |-> FALSE, reason |-> UnmatchedReason(StrictMode),
          version |-> doc_version, keys |-> idem_keys,
          update_reached |-> TRUE]
    ELSE [written |-> TRUE, reason |-> "written",
          version |-> BuildUpdateVersion(doc_version, StrictMode),
          keys |-> RecordIdempotency(e.key),
          update_reached |-> TRUE]

\* WorkItemResult.success_result as _execute_pipeline builds it.
SuccessResult(written, reason, reached) ==
    [success |-> TRUE, written |-> written,
     lifecycle_state |-> IF written THEN "written" ELSE "write_skipped",
     reason |-> reason, update_reached |-> reached]

\* WorkItemResult.failure_result as execute builds it.
FailureResult(lifecycle_state, reason, reached) ==
    [success |-> FALSE, written |-> FALSE,
     lifecycle_state |-> lifecycle_state, reason |-> reason,
     update_reached |-> reached]

(***************************************************************************)
(* The Redis stream queue and the worker loop                              *)
(***************************************************************************)
\* The consumer name the ConsumerGroupManager claims pending entries for.
Reclaimer == "reclaimer"

\* max_attempts of a dispatched work item: agent.execution.max_retries + 1.
MaxAttempts == AgentMaxRetries + 1

\* WorkItem.should_retry.
ShouldRetry(e) == e.attempt < MaxAttempts

\* WorkItem.increment_attempt.
IncrementAttempt(e) == [e EXCEPT !.attempt = e.attempt + 1]

\* XACK has removed the entry from the pending list.
Acked(m) == m <= last_delivered_id /\ pending[m] = "none"

Min(a, b) == IF a < b THEN a ELSE b

\* AgentDispatcher.dispatch: a work item for the target document, stamped
\* with the version the document has now, is added to the stream.
Dispatch ==
    /\ Len(stream) < MaxEntries
    /\ stream' = Append(stream,
           [item |-> Len(stream) + 1, attempt |-> 0,
            source_version |-> ExtractSourceVersion(doc_version),
            key |-> IF deduplicate THEN Len(stream) + 1 ELSE NoKey])
    /\ UNCHANGED <<last_delivered_id, pending, retried, dlq, wk_pc, batch,
                   shutdown_event, outcome, ai_called, agent_state,
                   agent_cache>>
    /\ UNCHANGED docVars
    /\ UNCHANGED otherThanWorker

\* run(): the loop is entered while shutdown is not set; dequeue reads the
\* entries never delivered to the group (">"), which become pending for
\* this consumer.
Dequeue(w) ==
    /\ wk_pc[w] = "poll"
    /\ ~shutdown_event
    /\ last_delivered_id < Len(stream)
    /\ LET k == Min(DequeueCount, Len(stream) - last_delivered_id)
           got == (last_delivered_id + 1)..(last_delivered_id + k)
       IN /\ last_delivered_id' = last_delivered_id + k
          /\ pending' = [m \in Entries |->
                            IF m \in got THEN w ELSE pending[m]]
          /\ batch' = [batch EXCEPT
                          ![w] = [i \in 1..k |-> last_delivered_id + i]]
    /\ wk_pc' = [wk_pc EXCEPT ![w] = "batch"]
    /\ UNCHANGED <<stream, retried, dlq, shutdown_event, outcome, ai_called,
                   agent_state, agent_cache>>
    /\ UNCHANGED docVars
    /\ UNCHANGED otherThanWorker

\* run(): the head of "for message_id, work_item in items": the batch is
\* done, or shutdown is set and the loop breaks, or the item is processed.
NextItem(w) ==
    /\ wk_pc[w] = "batch"
    /\ IF batch[w] = <<>>
       THEN /\ wk_pc' = [wk_pc EXCEPT ![w] = "poll"]
            /\ UNCHANGED batch
       ELSE IF shutdown_event
       THEN /\ wk_pc' = [wk_pc EXCEPT ![w] = "poll"]
            /\ batch' = [batch EXCEPT ![w] = <<>>]
       ELSE /\ wk_pc' = [wk_pc EXCEPT ![w] = "exec"]
            /\ UNCHANGED batch
    /\ UNCHANGED <<stream, last_delivered_id, pending, retried, dlq,
                   shutdown_event, outcome, ai_called, agent_state,
                   agent_cache>>
    /\ UNCHANGED docVars
    /\ UNCHANGED otherThanWorker

\* Executor._get_agent: the cached agent, else the one in the store.
GetAgent(w) ==
    IF agent_cache[w] # "none" THEN agent_cache[w] ELSE agent_state

\* The ways _execute_pipeline can go for an enabled agent.
PipelinePaths ==
    {"pipeline_error", "timeout", "policy_skip", "write_error", "write"}

\* _call_ai is invoked for entry m: the entry keeps the state the agent
\* has in the store at that moment.
CallAi(m) == [ai_called EXCEPT ![m] = agent_state]

\* _process_item up to the result of Executor.execute: the agent is loaded;
\* a missing or disabled agent raises and the item is acked without retry;
\* else the pipeline runs to a success result (acked), to a failure result
\* (handled by _handle_failure) or to a timeout (handled by
\* _handle_timeout).  The pipeline's failures are those of the provider
\* call and of what follows it; the deadline can only fire at an await,
\* the first of which is the provider call.
Execute(w) ==
    /\ wk_pc[w] = "exec"
    /\ LET m == Head(batch[w])
           e == stream[m]
           agent == GetAgent(w)
       IN /\ agent_cache' =
                 IF agent = "missing" THEN agent_cache
                 ELSE [agent_cache EXCEPT ![w] = agent]
          /\ IF agent = "missing"
             THEN /\ outcome' = [outcome EXCEPT ![m] =
                        FailureResult("failed", "agent_not_found", FALSE)]
                  /\ wk_pc' = [wk_pc EXCEPT ![w] = "ack"]
                  /\ UNCHANGED ai_called
                  /\ UNCHANGED docVars
             ELSE IF agent = "disabled"
             THEN /\ outcome' = [outcome EXCEPT ![m] =
                        FailureResult("failed", "agent_disabled", FALSE)]
                  /\ wk_pc' = [wk_pc EXCEPT ![w] = "ack"]
                  /\ UNCHANGED ai_called
                  /\ UNCHANGED docVars
             ELSE \E path \in PipelinePaths :
                    CASE path = "pipeline_error" ->
                           /\ outcome' = [outcome EXCEPT ![m] =
                                 FailureResult("failed", "pipeline_error",
                                               FALSE)]
                           /\ wk_pc' = [wk_pc EXCEPT ![w] = "failed"]
                           /\ ai_called' = CallAi(m)
                           /\ UNCHANGED docVars
                      [] path = "timeout" ->
                           /\ outcome' = [outcome EXCEPT ![m] =
                                 FailureResult("timed_out", "timeout",
                                               FALSE)]
                           /\ wk_pc' = [wk_pc EXCEPT ![w] = "timed_out"]
                           /\ ai_called' = CallAi(m)
                           /\ UNCHANGED docVars
                      [] path = "policy_skip" ->
                           /\ outcome' = [outcome EXCEPT ![m] =
                                 SuccessResult(FALSE, "policy_skip", FALSE)]
                           /\ wk_pc' = [wk_pc EXCEPT ![w] = "ack"]
                           /\ ai_called' = CallAi(m)
                           /\ UNCHANGED docVars
                      [] path = "write_error" ->
                           /\ consistency_mode # "shadow"
                           /\ outcome' = [outcome EXCEPT ![m] =
                                 SuccessResult(FALSE, "write_error", FALSE)]
                           /\ wk_pc' = [wk_pc EXCEPT ![w] = "ack"]
                           /\ ai_called' = CallAi(m)
                           /\ UNCHANGED docVars
                      [] path = "write" ->
                           LET r == WriteResult(e)
                           IN /\ outcome' = [outcome EXCEPT ![m] =
                                    SuccessResult(r.written, r.reason,
                                                  r.update_reached)]
                              /\ doc_version' = r.version
                              /\ idem_keys' = r.keys
                              /\ wk_pc' = [wk_pc EXCEPT ![w] = "ack"]
                              /\ ai_called' = CallAi(m)
                              /\ UNCHANGED <<consistency_mode, deduplicate>>
    /\ UNCHANGED <<stream, last_delivered_id, pending, retried, dlq, batch,
                   shutdown_event, agent_state>>
    /\ UNCHANGED otherThanWorker

\* A variant of OnQueueError in which the error is swallowed and the
\* handler goes on to its ack.
OnQueueErrorAckAnyway(w) ==
    /\ wk_pc' = [wk_pc EXCEPT ![w] = "ack"]
    /\ UNCHANGED batch

\* enqueue or move_to_dlq raised QueueError: it leaves the handler before
\* the ack and is caught by run()'s "except Exception", which drops the
\* rest of the batch and goes on with the loop.
OnQueueError(w) ==
    /\ wk_pc' = [wk_pc EXCEPT ![w] = "poll"]
    /\ batch' = [batch EXCEPT ![w] = <<>>]

\* _handle_failure up to its ack: with retry budget left the copy with
\* attempt + 1 is enqueued on the same stream, else the item is moved to
\* the DLQ.  The stream refuses an entry past MaxEntries.
HandleFailure(w) ==
    /\ wk_pc[w] = "failed"
    /\ LET m == Head(batch[w])
           e == stream[m]
       IN \E ok \in BOOLEAN :
            IF ShouldRetry(e)
            THEN IF ok /\ Len(stream) < MaxEntries
                 THEN /\ stream' = Append(stream, IncrementAttempt(e))
                      /\ retried' = retried \cup {m}
                      /\ wk_pc' = [wk_pc EXCEPT ![w] = "ack"]
                      /\ UNCHANGED <<dlq, batch>>
                 ELSE /\ OnQueueError(w)
                      /\ UNCHANGED <<stream, retried, dlq>>
            ELSE IF ok
                 THEN /\ dlq' = dlq \cup {m}
                      /\ wk_pc' = [wk_pc EXCEPT ![w] = "ack"]
                      /\ UNCHANGED <<stream, retried, batch>>
                 ELSE /\ OnQueueError(w)
                      /\ UNCHANGED <<stream, retried, dlq>>
    /\ UNCHANGED <<last_delivered_id, pending, shutdown_event, outcome,
                   ai_called, agent_state, agent_cache>>
    /\ UNCHANGED docVars
    /\ UNCHANGED otherThanWorker

\* A variant of the timeout handler's choice in which a timed-out item is
\* never retried.
TimeoutNeverRetried(e) == FALSE

\* _handle_timeout's choice between the retry and the DLQ:
\* work_item.should_retry().
TimeoutShouldRetry(e) == e.attempt < MaxAttempts

\* _handle_timeout up to its ack: with retry budget left the copy with
\* attempt + 1 is enqueued on the same stream, else the item is moved to
\* the DLQ with the timeout error.
HandleTimeout(w) ==
    /\ wk_pc[w] = "timed_out"
    /\ LET m == Head(batch[w])
           e == stream[m]
       IN \E ok \in BOOLEAN :
            IF TimeoutShouldRetry(e)
            THEN IF ok /\ Len(stream) < MaxEntries
                 THEN /\ stream' = Append(stream, IncrementAttempt(e))
                      /\ retried' = retried \cup {m}
                      /\ wk_pc' = [wk_pc EXCEPT ![w] = "ack"]
                      /\ UNCHANGED <<dlq, batch>>
                 ELSE /\ OnQueueError(w)
                      /\ UNCHANGED <<stream, retried, dlq>>
            ELSE IF ok
                 THEN /\ dlq' = dlq \cup {m}
                      /\ wk_pc' = [wk_pc EXCEPT ![w] = "ack"]
                      /\ UNCHANGED <<stream, retried, batch>>
                 ELSE /\ OnQueueError(w)
                      /\ UNCHANGED <<stream, retried, dlq>>
    /\ UNCHANGED <<last_delivered_id, pending, shutdown_event, outcome,
                   ai_called, agent_state, agent_cache>>
    /\ UNCHANGED docVars
    /\ UNCHANGED otherThanWorker

\* queue.ack of the message in hand, then on to the next item of the batch.
Ack(w) ==
    /\ wk_pc[w] = "ack"
    /\ pending' = [pending EXCEPT ![Head(batch[w])] = "none"]
    /\ batch' = [batch EXCEPT ![w] = Tail(batch[w])]
    /\ wk_pc' = [wk_pc EXCEPT ![w] = "batch"]
    /\ UNCHANGED <<stream, last_delivered_id, retried, dlq, shutdown_event,
                   outcome, ai_called, agent_state, agent_cache>>
    /\ UNCHANGED docVars
    /\ UNCHANGED otherThanWorker

\* run(): the while condition fails once shutdown is set; the worker stops.
WorkerExit(w) ==
    /\ wk_pc[w] = "poll"
    /\ shutdown_event
    /\ wk_pc' = [wk_pc EXCEPT ![w] = "stopped"]
    /\ UNCHANGED <<stream, last_delivered_id, pending, retried, dlq, batch,
                   shutdown_event, outcome, ai_called, agent_state,
                   agent_cache>>
    /\ UNCHANGED docVars
    /\ UNCHANGED otherThanWorker

\* The worker's process dies, or its task is cancelled by the pool after
\* shutdown_timeout: what it held in memory is gone, the stream and the
\* pending list stay.  At most one worker is lost in a run of the model.
Crash(w) ==
    /\ wk_pc[w] \notin {"stopped", "crashed"}
    /\ \A v \in Workers : wk_pc[v] # "crashed"
    /\ wk_pc' = [wk_pc EXCEPT ![w] = "crashed"]
    /\ batch' = [batch EXCEPT ![w] = <<>>]
    /\ agent_cache' = [agent_cache EXCEPT ![w] = "none"]
    /\ UNCHANGED <<stream, last_delivered_id, pending, retried, dlq,
                   shutdown_event, outcome, ai_called, agent_state>>
    /\ UNCHANGED docVars
    /\ UNCHANGED otherThanWorker

\* WorkerPool.shutdown sets the shutdown event.
SetShutdown ==
    /\ ~shutdown_event
    /\ shutdown_event' = TRUE
    /\ UNCHANGED <<stream, last_delivered_id, pending, retried, dlq, wk_pc,
                   batch, outcome, ai_called, agent_state, agent_cache>>
    /\ UNCHANGED docVars
    /\ UNCHANGED otherThanWorker

\* The pending entries no live worker is working on: their consumer
\* crashed, stopped or dropped them, so their idle time passes min_idle_ms.
IdlePending ==
    {m \in Entries :
        /\ pending[m] \notin {"none", Reclaimer}
        /\ \A w \in Workers :
              \A i \in 1..Len(batch[w]) : batch[w][i] # m}

\* One pass of ConsumerGroupManager._claim_loop: claim_pending moves the
\* idle pending entries to the manager's own consumer name (XCLAIM); the
\* loop logs how many it claimed and does nothing else with them.
ClaimLoop ==
    /\ IdlePending # {}
    /\ pending' = [m \in Entries |->
                      IF m \in IdlePending THEN Reclaimer ELSE pending[m]]
    /\ UNCHANGED <<stream, last_delivered_id, retried, dlq, wk_pc, batch,
                   shutdown_event, outcome, ai_called, agent_state,
                   agent_cache>>
    /\ UNCHANGED docVars
    /\ UNCHANGED otherThanWorker

\* The agent is disabled or deleted through the agent store.
AgentStoreChange ==
    /\ agent_state = "enabled"
    /\ \E st \in {"disabled", "missing"} : agent_state' = st
    /\ UNCHANGED <<stream, last_delivered_id, pending, retried, dlq, wk_pc,
                   batch, shutdown_event, outcome, ai_called, agent_cache>>
    /\ UNCHANGED docVars
    /\ UNCHANGED otherThanWorker

WorkerStep(w) ==
    \/ Dequeue(w)
    \/ NextItem(w)
    \/ Execute(w)
    \/ HandleFailure(w)
    \/ HandleTimeout(w)
    \/ Ack(w)
    \/ WorkerExit(w)

WorkerNext ==
    \/ Dispatch
    \/ \E w \in Workers : WorkerStep(w)
    \/ \E w \in Workers : Crash(w)
    \/ SetShutdown
    \/ ClaimLoop
    \/ AgentStoreChange

InitWorker ==
    /\ WorkerInit /\ WorkerDocInit
    /\ LeaderParked /\ WatcherParked /\ WriterParked /\ LaterParked

SpecWorker == InitWorker /\ [][WorkerNext]_vars

\* A worker that can take a step of its loop eventually takes it, and the
\* claim loop keeps running; crashes, shutdown, dispatches and agent
\* changes happen or not.
FairSpecWorker ==
    /\ SpecWorker
    /\ \A w \in Workers : WF_vars(WorkerStep(w))
    /\ WF_vars(ClaimLoop)

\* The terminal states of an entry's work item that the worker reaches
\* before an ack: a success result (written or write skipped), a retry copy
\* on the stream, an entry in the DLQ.
Finished(m) == outcome[m].success

ReEnqueued(m) == m \in retried

DeadLettered(m) == m \in dlq

\* The executor raised AgentNotFoundError or AgentDisabledError.
FastFailed(m) == outcome[m].reason \in {"agent_not_found", "agent_disabled"}

\* C1 as the spec states it: an acked entry's work item is finished,
\* re-enqueued or dead-lettered.
C1_AckOnlyAfterTerminal ==
    \A m \in Entries :
       Acked(m) => (Finished(m) \/ ReEnqueued(m) \/ DeadLettered(m))

\* C1: an acked entry's work item is finished, re-enqueued or
\* dead-lettered, or it was fast-failed because its agent is missing or
\* disabled.
C1_AckOnlyAfterTerminalOrFastFail ==
    \A m \in Entries :
       Acked(m) =>
          (Finished(m) \/ ReEnqueued(m) \/ DeadLettered(m) \/ FastFailed(m))

\* An entry was acked after its retry copy was enqueued, and the copy was
\* acked after it was moved to the DLQ.
C1_Witness ==
    \E m, n \in Entries :
       /\ Acked(m) /\ ReEnqueued(m) /\ ~Finished(m)
       /\ Acked(n) /\ DeadLettered(n) /\ ~Finished(n)

\* C2: a worker that is through with its batch (back at the poll, or
\* stopped) has acked every entry that was delivered to it.
C2_EveryDequeuedIsAcked ==
    \A w \in Workers :
       wk_pc[w] \in {"poll", "stopped"} =>
          \A m \in Entries : pending[m] # w

\* C3: an entry pending for a worker that crashed is eventually processed
\* to the end and acked by a live consumer, as long as the pool is not shut
\* down.
C3_LostDeliveryIsReprocessed ==
    \A m \in Entries :
       (/\ pending[m] \in Workers
        /\ wk_pc[pending[m]] = "crashed") ~> (Acked(m) \/ shutdown_event)

\* The result of an execution whose write met a version conflict.
StrictConflictResult ==
    SuccessResult(FALSE, "strict_version_conflict", TRUE)

\* The entry is acked, or its worker stands at the ack, or the worker was
\* lost before it got there.
AckedOrAtAck(m) ==
    \/ Acked(m)
    \/ \E w \in Workers :
          wk_pc[w] = "ack" /\ batch[w] # <<>> /\ Head(batch[w]) = m
    \/ /\ pending[m] \in Workers \cup {Reclaimer}
       /\ \E w \in Workers : wk_pc[w] = "crashed"

\* C9, the step: under strict_post_commit an execution whose update_one
\* meets a document version other than the item's source_version leaves
\* the document as it is, ends with written = FALSE, write_skipped and
\* strict_version_conflict, and goes on to the ack.
C9_ConflictStep ==
    \A w \in Workers :
       (/\ wk_pc[w] = "exec"
        /\ wk_pc'[w] # "exec"
        /\ wk_pc'[w] # "crashed"
        /\ StrictMode
        /\ outcome'[Head(batch[w])].update_reached
        /\ ExtractSourceVersion(doc_version) #
              stream[Head(batch[w])].source_version)
       => /\ outcome'[Head(batch[w])] = StrictConflictResult
          /\ doc_version' = doc_version
          /\ wk_pc'[w] = "ack"

\* C9, afterwards: an entry that ended in a version conflict is neither
\* retried nor dead-lettered, and it is acked.
C9_ConflictIsTerminal ==
    \A m \in Entries :
       outcome[m].reason = "strict_version_conflict" =>
          /\ outcome[m] = StrictConflictResult
          /\ ~ReEnqueued(m)
          /\ ~DeadLettered(m)
          /\ AckedOrAtAck(m)

KeyOnRecord(m) == stream[m].key # NoKey /\ stream[m].key \in idem_keys

\* A call of write() returns reason code rc to _write_result.
WriteReturns(w, rc) ==
    /\ wr_ret' = [wr_ret EXCEPT ![w] = rc]
    /\ wr_pc' = [wr_pc EXCEPT ![w] = "idle"]

\* Executor._write_result calls ResultWriter.write for an entry delivered
\* to the worker: its first delivery, a retry copy, or a redelivery of the
\* same entry (claim_pending hands out entries that were delivered before).
WriteBegin(w, m) ==
    /\ wr_pc[w] = "idle"
    /\ wr_calls < MaxCalls
    /\ m \in 1..Len(stream)
    /\ wr_calls' = wr_calls + 1
    /\ wr_item' = [wr_item EXCEPT ![w] = m]
    /\ wr_dup' = [wr_dup EXCEPT ![w] = KeyOnRecord(m)]
    /\ wr_ret' = [wr_ret EXCEPT ![w] = "none"]
    /\ wr_pc' = [wr_pc EXCEPT ![w] = "check"]
    /\ UNCHANGED writebacks
    /\ UNCHANGED <<docVars, workerVars>>
    /\ UNCHANGED otherThanWriter

\* write(): the idempotency check (find_one on the key collection).
WriteCheckIdempotency(w) ==
    /\ wr_pc[w] = "check"
    /\ IF CheckIdempotency(stream[wr_item[w]].key)
       THEN WriteReturns(w, "idempotency_duplicate")
       ELSE /\ wr_pc' = [wr_pc EXCEPT ![w] = "hash"]
            /\ UNCHANGED wr_ret
    /\ UNCHANGED <<wr_item, wr_dup, wr_calls, writebacks>>
    /\ UNCHANGED <<docVars, workerVars>>
    /\ UNCHANGED otherThanWriter

\* write(): under strict mode with require_document_hash_match the current
\* document is read and its hash compared with the dispatch-time hash; the
\* document's content is not modelled, the comparison goes either way.
WriteHashCheck(w) ==
    /\ wr_pc[w] = "hash"
    /\ \E hash_ok \in BOOLEAN :
          IF StrictMode /\ ~hash_ok
          THEN WriteReturns(w, "hash_conflict")
          ELSE /\ wr_pc' = [wr_pc EXCEPT ![w] = "update"]
               /\ UNCHANGED wr_ret
    /\ UNCHANGED <<wr_item, wr_dup, wr_calls, writebacks>>
    /\ UNCHANGED <<docVars, workerVars>>
    /\ UNCHANGED otherThanWriter

\* write(): update_one(filter, update), one atomic operation of the store.
\* No match returns the conflict code; a match applies the update; an
\* error of the call is turned into write_error by _write_result.
WriteUpdate(w) ==
    /\ wr_pc[w] = "update"
    /\ LET e == stream[wr_item[w]]
       IN \E db_ok \in BOOLEAN :
            IF ~db_ok
            THEN /\ WriteReturns(w, "write_error")
                 /\ UNCHANGED <<doc_version, writebacks>>
            ELSE IF ~BuildUpdateFilterMatches(doc_version, e.source_version,
                                              StrictMode)
            THEN /\ WriteReturns(w, UnmatchedReason(StrictMode))
                 /\ UNCHANGED <<doc_version, writebacks>>
            ELSE /\ doc_version' = BuildUpdateVersion(doc_version, StrictMode)
                 /\ writebacks' = Append(writebacks,
                        [item |-> e.item,
                         source_version |-> e.source_version,
                         pre |-> ExtractSourceVersion(doc_version),
                         post |-> BuildUpdateVersion(doc_version, StrictMode),
                         key_on_record |-> wr_dup[w]])
                 /\ wr_pc' = [wr_pc EXCEPT ![w] = "record"]
                 /\ UNCHANGED wr_ret
    /\ UNCHANGED <<wr_item, wr_dup, wr_calls>>
    /\ UNCHANGED <<idem_keys, consistency_mode, deduplicate>>
    /\ UNCHANGED workerVars
    /\ UNCHANGED otherThanWriter

\* write(): _record_idempotency for an item with a key, then "written".
WriteRecord(w) ==
    /\ wr_pc[w] = "record"
    /\ idem_keys' = RecordIdempotency(stream[wr_item[w]].key)
    /\ WriteReturns(w, "written")
    /\ UNCHANGED <<wr_item, wr_dup, wr_calls, writebacks>>
    /\ UNCHANGED <<doc_version, consistency_mode, deduplicate>>
    /\ UNCHANGED workerVars
    /\ UNCHANGED otherThanWriter

\* The call is cut short between two store calls: the execution timed out
\* (asyncio.wait_for cancels the pipeline) or the worker died.
WriteAbort(w) ==
    /\ wr_pc[w] # "idle"
    /\ WriteReturns(w, "aborted")
    /\ UNCHANGED <<wr_item, wr_dup, wr_calls, writebacks>>
    /\ UNCHANGED <<docVars, workerVars>>
    /\ UNCHANGED otherThanWriter

WriterNext ==
    \/ Dispatch
    \/ \E w \in Workers, m \in Entries : WriteBegin(w, m)
    \/ \E w \in Workers : WriteCheckIdempotency(w)
    \/ \E w \in Workers : WriteHashCheck(w)
    \/ \E w \in Workers : WriteUpdate(w)
    \/ \E w \in Workers : WriteRecord(w)
    \/ \E w \in Workers : WriteAbort(w)

InitWriter ==
    /\ WriterInit /\ WriterDocInit /\ WorkerInit
    /\ LeaderParked /\ WatcherParked /\ LaterParked

SpecWriter == InitWriter /\ [][WriterNext]_vars

\* C8: under strict_post_commit every writeback that succeeded met the
\* document at the item's source_version (a missing field counting as 0)
\* and left it at source_version + 1, and no two writebacks that succeeded
\* carry the same source_version.
C8_StrictWritebackIsCompareAndIncrement ==
    StrictMode =>
       /\ \A i \in 1..Len(writebacks) :
             /\ writebacks[i].pre = writebacks[i].source_version
             /\ writebacks[i].post = writebacks[i].source_version + 1
       /\ \A i, j \in 1..Len(writebacks) :
             i # j =>
                writebacks[i].source_version # writebacks[j].source_version

\* Two writebacks succeeded under strict mode, and a racing call was
\* refused with a version conflict.
C8_Witness ==
    /\ StrictMode
    /\ Len(writebacks) >= 2
    /\ \E w \in Workers : wr_ret[w] = "strict_version_conflict"

\* C10: a call of write() for an item whose idempotency key was on record
\* when the call began issues no update of the target document.
C10_RecordedKeyIssuesNoUpdate ==
    /\ \A i \in 1..Len(writebacks) : ~writebacks[i].key_on_record
    /\ \A w \in Workers :
          wr_dup[w] => wr_pc[w] \in {"idle", "check"}
    /\ \A w \in Workers :
          (wr_dup[w] /\ wr_pc[w] = "idle") =>
             wr_ret[w] \in {"idempotency_duplicate", "aborted"}

\* An item was written and its key recorded; the item was delivered again
\* and the second call returned idempotency_duplicate.
C10_Witness ==
    \E w \in Workers :
       /\ wr_dup[w]
       /\ wr_pc[w] = "idle"
       /\ wr_ret[w] = "idempotency_duplicate"
       /\ \E i \in 1..Len(writebacks) :
             writebacks[i].item = stream[wr_item[w]].item

\* C11: a retry copy is enqueued only for an entry whose attempt + 1 is
\* below max_attempts; an entry that failed or timed out at attempt
\* max_attempts - 1 is moved to the DLQ and not re-enqueued.
C11_RetryOnlyBelowLastAttempt ==
    \A m \in Entries :
       ReEnqueued(m) => stream[m].attempt + 1 < MaxAttempts

\* The entries on the stream that carry work item i.
EntriesOf(i) == {m \in 1..Len(stream) : stream[m].item = i}

\* C12: a work item of an agent with max_retries = N is executed at most
\* N + 1 times (attempts 0..N) and at most N retries are scheduled for it
\* before its DLQ entry.
C12_AtMostNPlusOneExecutions ==
    \A i \in Entries :
       /\ Cardinality({m \in EntriesOf(i) : outcome[m] # NoResult})
             <= AgentMaxRetries + 1
       /\ Cardinality({m \in EntriesOf(i) : ReEnqueued(m)})
             <= AgentMaxRetries
       /\ \A m \in EntriesOf(i) : stream[m].attempt <= AgentMaxRetries


\* The execution record of the work item of entry m exists: the executor
\* has produced the entry's result and handed it to _record_execution,
\* which upserts it under the work-item id.
ExecutionRecorded(m) == outcome[m] # NoResult

\* The pool is running: no shutdown was asked for and no worker was lost.
RunningSystem ==
    /\ ~shutdown_event
    /\ \A w \in Workers : wk_pc[w] # "crashed"

\* C13: in a running system every enqueued work item gets its terminal
\* execution record, keyed by the work-item id.
C13_EveryEnqueuedItemIsRecorded ==
    \A m \in Entries :
       (m <= Len(stream)) ~> (ExecutionRecorded(m) \/ ~RunningSystem)


\* The executor stopped the pipeline of entry m at its deadline.
TimedOut(m) == outcome[m].reason = "timeout"

\* C14: an execution stopped at the deadline is recorded as timed_out with
\* reason timeout; its item is re-enqueued exactly when the failure rule
\* (should_retry) gives it another attempt and dead-lettered exactly when
\* it does not, and the entry is acked only after one of the two.
C14_TimeoutFollowsRetryRule ==
    \A m \in Entries :
       TimedOut(m) =>
          /\ outcome[m] = FailureResult("timed_out", "timeout", FALSE)
          /\ ReEnqueued(m) => ShouldRetry(stream[m])
          /\ DeadLettered(m) => ~ShouldRetry(stream[m])
          /\ Acked(m) => (ReEnqueued(m) \/ DeadLettered(m))

\* A timed-out entry was acked after its retry copy was enqueued, and the
\* copy, timed out as well, was acked after it was moved to the DLQ.
C14_Witness ==
    \E m, n \in Entries :
       /\ TimedOut(m) /\ Acked(m) /\ ReEnqueued(m)
       /\ TimedOut(n) /\ Acked(n) /\ DeadLettered(n)

\* C15: no provider call is made for an entry while its agent is disabled
\* or missing in the store, and an entry that failed fast on its agent has
\* no provider call, no retry copy and no DLQ entry.
C15_NoProviderCallForMissingOrDisabledAgent ==
    \A m \in Entries :
       /\ ai_called[m] \in {"no", "enabled"}
       /\ FastFailed(m) =>
             /\ ai_called[m] = "no"
             /\ ~ReEnqueued(m)
             /\ ~DeadLettered(m)


(***************************************************************************)
(* The watcher's watch tasks and refresh_watches                           *)
(***************************************************************************)
\* An agent is created, enabled, disabled or deleted in the store: the set
\* of watched namespaces changes and the agents collection's change stream
\* has one more event for _watch_agent_configs.
AgentConfigChange ==
    /\ config_events < MaxStoreChanges
    /\ \E ns \in Namespaces :
          targets' = IF ns \in targets THEN targets \ {ns}
                     ELSE targets \cup {ns}
    /\ config_events' = config_events + 1
    /\ UNCHANGED <<watch_tasks, live_tasks, next_task, rf_pc, rf_remove,
                   rf_add, rf_ns, ns_feed, ns_token, highest_saved>>
    /\ UNCHANGED otherThanRefresh

\* _refresh_loop after its sleep, or _watch_agent_configs on an event of
\* the agents collection, calls refresh_watches: the targets are read from
\* the store, then to_remove and to_add are computed against the keys of
\* _watch_tasks.
RefreshWatches(r) ==
    /\ rf_pc[r] = "idle"
    /\ IF r = "config"
       THEN /\ config_events > 0
            /\ config_events' = config_events - 1
       ELSE UNCHANGED config_events
    /\ LET current_targets == {ns \in Namespaces : watch_tasks[ns] # 0}
       IN /\ rf_remove' = [rf_remove EXCEPT ![r] = current_targets \ targets]
          /\ rf_add' = [rf_add EXCEPT ![r] = targets \ current_targets]
    /\ rf_pc' = [rf_pc EXCEPT ![r] = "loop"]
    /\ UNCHANGED <<targets, watch_tasks, live_tasks, next_task, rf_ns,
                   ns_feed, ns_token, highest_saved>>
    /\ UNCHANGED otherThanRefresh

\* _stop_watch for one namespace of to_remove: the task in _watch_tasks is
\* popped and cancelled, which ends its loop and closes its cursor.
StopWatch(r) ==
    /\ rf_pc[r] = "loop"
    /\ \E ns \in rf_remove[r] :
          /\ rf_remove' = [rf_remove EXCEPT ![r] = rf_remove[r] \ {ns}]
          /\ IF watch_tasks[ns] = 0
             THEN UNCHANGED <<watch_tasks, live_tasks>>
             ELSE /\ watch_tasks' = [watch_tasks EXCEPT ![ns] = 0]
                  /\ live_tasks' =
                        {t \in live_tasks : t.id # watch_tasks[ns]}
    /\ UNCHANGED <<targets, config_events, next_task, rf_pc, rf_add, rf_ns,
                   ns_feed, ns_token, highest_saved>>
    /\ UNCHANGED otherThanRefresh

\* _start_watch for one namespace of to_add, up to its await: it returns
\* if the namespace has a task, else it asks the token store for the
\* namespace's resume token.
StartWatch(r) ==
    /\ rf_pc[r] = "loop"
    /\ rf_remove[r] = {}
    /\ \E ns \in rf_add[r] :
          /\ rf_add' = [rf_add EXCEPT ![r] = rf_add[r] \ {ns}]
          /\ IF watch_tasks[ns] # 0
             THEN UNCHANGED <<rf_pc, rf_ns>>
             ELSE /\ rf_pc' = [rf_pc EXCEPT ![r] = "token"]
                  /\ rf_ns' = [rf_ns EXCEPT ![r] = ns]
    /\ UNCHANGED <<targets, config_events, watch_tasks, live_tasks,
                   next_task, rf_remove, ns_feed, ns_token, highest_saved>>
    /\ UNCHANGED otherThanRefresh

\* Where the cursor of a new watch task stands: at the stored token
\* (resume_after), or at the end of the feed when none is stored.
OpenPosition(ns) == IF ns_token[ns] # 0 THEN ns_token[ns] ELSE ns_feed[ns]

\* _start_watch after the token read: the watch task is created and stored
\* under the namespace, over whatever task is stored there.
CreateWatchTask(r) ==
    /\ rf_pc[r] = "token"
    /\ next_task < MaxTasks
    /\ LET ns == rf_ns[r]
       IN /\ next_task' = next_task + 1
          /\ live_tasks' = live_tasks \cup
                              {[id |-> next_task + 1, ns |-> ns,
                                pos |-> OpenPosition(ns)]}
          /\ watch_tasks' = [watch_tasks EXCEPT ![ns] = next_task + 1]
    /\ rf_pc' = [rf_pc EXCEPT ![r] = "loop"]
    /\ rf_ns' = [rf_ns EXCEPT ![r] = "none"]
    /\ UNCHANGED <<targets, config_events, rf_remove, rf_add, ns_feed,
                   ns_token, highest_saved>>
    /\ UNCHANGED otherThanRefresh

\* refresh_watches returns when both loops are through.
RefreshDone(r) ==
    /\ rf_pc[r] = "loop"
    /\ rf_remove[r] = {}
    /\ rf_add[r] = {}
    /\ rf_pc' = [rf_pc EXCEPT ![r] = "idle"]
    /\ UNCHANGED <<targets, config_events, watch_tasks, live_tasks,
                   next_task, rf_remove, rf_add, rf_ns, ns_feed, ns_token,
                   highest_saved>>
    /\ UNCHANGED otherThanRefresh

\* _watch_loop leaves its while loop by itself (retry ceiling passed, or
\* an unexpected error): the cursor is gone, the finished task stays in
\* _watch_tasks.
WatchLoopEnds ==
    /\ \E t \in live_tasks : live_tasks' = live_tasks \ {t}
    /\ UNCHANGED <<targets, config_events, watch_tasks, next_task, rf_pc,
                   rf_remove, rf_add, rf_ns, ns_feed, ns_token, highest_saved>>
    /\ UNCHANGED otherThanRefresh

\* A user mutation in a namespace: one more event in its change feed.
NamespaceWrite ==
    /\ \E ns \in Namespaces :
          /\ ns_feed[ns] < MaxFeed
          /\ ns_feed' = [ns_feed EXCEPT ![ns] = ns_feed[ns] + 1]
    /\ UNCHANGED <<targets, config_events, watch_tasks, live_tasks,
                   next_task, rf_pc, rf_remove, rf_add, rf_ns, ns_token,
                   highest_saved>>
    /\ UNCHANGED otherThanRefresh

Max(a, b) == IF a > b THEN a ELSE b

\* A watch loop takes the next event of its cursor and runs
\* _handle_change: the event's resume token is saved over the stored one
\* (a save that raises is logged), then the event is matched and
\* dispatched.
HandleChange ==
    /\ \E t \in live_tasks :
          /\ t.pos < ns_feed[t.ns]
          /\ live_tasks' = (live_tasks \ {t}) \cup
                              {[t EXCEPT !.pos = t.pos + 1]}
          /\ \E ok \in BOOLEAN :
                IF ok
                THEN /\ ns_token' = [ns_token EXCEPT ![t.ns] = t.pos + 1]
                     /\ highest_saved' =
                           [highest_saved EXCEPT
                              ![t.ns] = Max(highest_saved[t.ns], t.pos + 1)]
                ELSE UNCHANGED <<ns_token, highest_saved>>
    /\ UNCHANGED <<targets, config_events, watch_tasks, next_task, rf_pc,
                   rf_remove, rf_add, rf_ns, ns_feed>>
    /\ UNCHANGED otherThanRefresh

RefreshStep(r) ==
    \/ RefreshWatches(r)
    \/ StopWatch(r)
    \/ StartWatch(r)
    \/ CreateWatchTask(r)
    \/ RefreshDone(r)

RefreshNext ==
    \/ AgentConfigChange
    \/ \E r \in Refreshers : RefreshStep(r)
    \/ WatchLoopEnds
    \/ NamespaceWrite
    \/ HandleChange

InitRefresh ==
    /\ RefreshInit
    /\ LeaderParked /\ WatcherParked /\ DocParked /\ WorkerParked
    /\ WriterParked /\ DispatchParked /\ ThirdParked
    /\ FourthParked

SpecRefresh == InitRefresh /\ [][RefreshNext]_vars

\* The cursors that tail namespace ns.
CursorsOf(ns) == {t \in live_tasks : t.ns = ns}

\* C16: there are never two tailing cursors (watch tasks) for the same
\* (database, collection) pair, however the periodic refresh and the
\* refresh forced by an agent-config change interleave.
C16_NeverTwoCursorsForOnePair ==
    \A ns \in Namespaces : Cardinality(CursorsOf(ns)) <= 1

\* C17, the step: a reconnect (a cursor opened with errors counted, or a
\* new attempt made after an error) takes the token that is stored at that
\* moment, and the cursor it opens stands at that token; it stands at the
\* live tail only if no token is stored.
C17_ReconnectStep ==
    /\ (wpc' = "connecting" /\ retry_count' > retry_count) =>
          resume_after' = token_store
    /\ (wpc = "connecting" /\ wpc' = "open") =>
          cursor' = IF token_store # 0 THEN token_store ELSE feed_len

C18_StoredTokenNeverGoesBack ==
    \A ns \in Namespaces : ns_token[ns] = highest_saved[ns]


(***************************************************************************)
(* The dispatcher: deduplication and backpressure admission                *)
(***************************************************************************)
\* The full documents of one target document that change events carry: the
\* user's content, and the framework fields (_ai_metadata,
\* _mongoclaw_version) as one value.  Content 1 is seen before and after a
\* writeback, content 2 before one.
Documents ==
    {[content |-> 1, framework |-> 0], [content |-> 1, framework |-> 1],
     [content |-> 2, framework |-> 0]}

\* agent.execution.priority of the agents dispatched for.
Priorities == {4, 5}

\* dispatch_backpressure_threshold's default 0.8, and the fullness ratios a
\* sample of the stream can give, both in tenths.
Threshold == 8

FullnessLevels == {7, 8}

\* dispatch_min_priority_when_backpressured and dispatch_defer_max_attempts
\* (their defaults).
MinPriorityWhenBackpressured == 5

DeferMaxAttempts == 3

\* WorkItem.generate_idempotency_key: agent_id, document_id and the md5 of
\* str(sorted(self.document.items())), that is of every field of the full
\* document, the framework fields among them.  Distinct documents of the
\* model keep distinct digests.
GenerateIdempotencyKey(doc) ==
    [agent_id |-> "agent", document_id |-> "doc",
     doc_hash |-> <<doc.content, doc.framework>>]

IsDuplicate(key) == key \in recent_keys

\* _add_to_cache: the key is added; past the maximum size the first
\* max_size // 2 keys of the set's iteration order, which is any order,
\* are dropped.  The sets it can leave.
AddToCache(key) ==
    LET added == recent_keys \cup {key}
    IN IF Cardinality(added) > MaxCacheSize
       THEN {added \ gone : gone \in
               {g \in SUBSET added : Cardinality(g) = MaxCacheSize \div 2}}
       ELSE {added}

\* A variant of the bypass test that lets only priorities above the minimum
\* through.
PriorityAboveMin(priority) == priority > MinPriorityWhenBackpressured

\* "work_item.priority >= dispatch_min_priority_when_backpressured".
PriorityBypass(priority) == priority >= MinPriorityWhenBackpressured

\* The fullness values the deferred checks of one call would read, one per
\* pass of the defer loop.
DeferSamples == [1..DeferMaxAttempts -> FullnessLevels]

\* The defer loop: after each sleep the fullness is read again and the loop
\* returns at the first reading below the threshold.  The number of that
\* check, 0 if every one of the DeferMaxAttempts readings is pressured.
DeferLoop(samples) ==
    IF \E i \in 1..DeferMaxAttempts : samples[i] < Threshold
    THEN CHOOSE i \in 1..DeferMaxAttempts :
            /\ samples[i] < Threshold
            /\ \A k \in 1..(i - 1) : samples[k] >= Threshold
    ELSE 0

\* The readings the defer loop has taken when it returns.
DeferReadings(samples) ==
    IF DeferLoop(samples) = 0 THEN samples
    ELSE SubSeq(samples, 1, DeferLoop(samples))

\* _apply_backpressure_admission, as the admission it records.  resample
\* is the number of the deferred check (1..DeferMaxAttempts) at which the
\* stream was found below the threshold, 0 if none was.
ApplyBackpressureAdmission(priority, fullness, resample) ==
    IF ~dsp_config.backpressure_enabled THEN "disabled"
    ELSE IF fullness < Threshold THEN "below_threshold"
    ELSE IF PriorityBypass(priority) THEN "priority_bypass"
    ELSE IF dsp_config.overflow_policy = "drop" THEN "drop"
    ELSE IF dsp_config.overflow_policy = "dlq" THEN "dlq"
    ELSE IF resample > 0 THEN "defer"
    ELSE "defer_forced_enqueue"

\* A variant of the admission's return value in which the defer loop gives
\* up after its last check instead of forcing the enqueue.
ShouldEnqueueUnlessForced(admission) ==
    admission \notin {"drop", "dlq", "defer_forced_enqueue"}

\* The value _apply_backpressure_admission returns.
ShouldEnqueue(admission) == admission \notin {"drop", "dlq"}

\* The counters after an admission.
CountAdmission(counts, admission) ==
    CASE admission = "drop" -> [counts EXCEPT !.dropped = @ + 1]
      [] admission = "dlq" -> [counts EXCEPT !.dlq = @ + 1]
      [] admission = "defer" -> [counts EXCEPT !.deferred = @ + 1]
      [] admission = "defer_forced_enqueue" ->
            [counts EXCEPT !.deferred = @ + 1, !.forced_enqueue = @ + 1]
      [] OTHER -> counts

\* The fullness a call has sampled: _get_stream_fullness is not called
\* with backpressure off, nor for a duplicate.
Sampled(fullness) == IF dsp_config.backpressure_enabled THEN fullness ELSE 0

\* AgentDispatcher.dispatch for one change event of the document: build
\* the work item; with deduplicate, return None for a key in the
\* recent-keys set and else add the key; apply the admission; enqueue
\* (which can raise QueueError) and return the work item's id.
DispatchEvent ==
    /\ Len(dsp_log) < MaxDispatches
    /\ \E doc \in Documents, priority \in Priorities,
          fullness \in FullnessLevels, samples \in DeferSamples,
          enqueue_ok \in BOOLEAN :
          LET call == Len(dsp_log) + 1
              key == GenerateIdempotencyKey(doc)
              item == [call |-> call, doc |-> doc, priority |-> priority]
              admission ==
                  ApplyBackpressureAdmission(priority, fullness,
                                             DeferLoop(samples))
              readings ==
                  IF admission \in {"defer", "defer_forced_enqueue"}
                  THEN DeferReadings(samples) ELSE <<>>
          IN IF dsp_config.deduplicate /\ IsDuplicate(key)
             THEN /\ dsp_counts' =
                        [dsp_counts EXCEPT !.deduplicated = @ + 1]
                  /\ dsp_log' = Append(dsp_log,
                        [doc |-> doc, priority |-> priority,
                         fullness |-> 0, seen |-> recent_keys,
                         readings |-> <<>>,
                         admission |-> "deduplicated", ret |-> "none"])
                  /\ UNCHANGED <<recent_keys, dsp_stream, dsp_dlq>>
             ELSE /\ IF dsp_config.deduplicate
                     THEN recent_keys' \in AddToCache(key)
                     ELSE UNCHANGED recent_keys
                  /\ dsp_dlq' = IF admission = "dlq"
                                THEN dsp_dlq \cup {item} ELSE dsp_dlq
                  /\ IF ShouldEnqueue(admission) /\ enqueue_ok
                     THEN /\ dsp_stream' = Append(dsp_stream, item)
                          /\ dsp_counts' =
                                [CountAdmission(dsp_counts, admission)
                                   EXCEPT !.dispatched = @ + 1]
                     ELSE /\ UNCHANGED dsp_stream
                          /\ dsp_counts' =
                                CountAdmission(dsp_counts, admission)
                  /\ dsp_log' = Append(dsp_log,
                        [doc |-> doc, priority |-> priority,
                         fullness |-> Sampled(fullness),
                         seen |-> recent_keys,
                         readings |-> readings,
                         admission |-> admission,
                         ret |-> IF ~ShouldEnqueue(admission) THEN "none"
                                 ELSE IF enqueue_ok THEN "id"
                                 ELSE "queue_error"])
    /\ UNCHANGED dsp_config
    /\ UNCHANGED otherThanDispatch

DispatchNext == DispatchEvent

InitDispatch ==
    /\ DispatchInit
    /\ LeaderParked /\ WatcherParked /\ DocParked /\ WorkerParked
    /\ WriterParked /\ RefreshParked /\ ThirdParked
    /\ FourthParked

SpecDispatch == InitDispatch /\ [][DispatchNext]_vars

\* C19: with deduplicate on, a dispatch of a document whose content equals
\* that of an earlier dispatch apart from the framework fields, made while
\* the earlier key is in the recent-keys set, returns no id, enqueues
\* nothing and is counted as deduplicated.
C19_SameContentIsDeduplicated ==
    \A i, j \in 1..Len(dsp_log) :
       (/\ i < j
        /\ dsp_config.deduplicate
        /\ dsp_log[i].doc.content = dsp_log[j].doc.content
        /\ GenerateIdempotencyKey(dsp_log[i].doc) \in dsp_log[j].seen)
       => /\ dsp_log[j].ret = "none"
          /\ dsp_log[j].admission = "deduplicated"
          /\ \A k \in 1..Len(dsp_stream) : dsp_stream[k].call # j

\* C20: with backpressure on, a dispatch that samples the stream at or
\* above the threshold for an item with priority >=
\* min_priority_when_backpressured is admitted by the priority bypass
\* under every overflow policy: the item is put on the target stream
\* (unless the enqueue itself raises), it is not moved to the DLQ, and no
\* drop, DLQ or defer is counted for it.
C20_PriorityBypassesBackpressure ==
    /\ \A j \in 1..Len(dsp_log) :
          (/\ dsp_config.backpressure_enabled
           /\ dsp_log[j].admission # "deduplicated"
           /\ dsp_log[j].fullness >= 8
           /\ dsp_log[j].priority >= 5)
          => /\ dsp_log[j].admission = "priority_bypass"
             /\ dsp_log[j].ret \in {"id", "queue_error"}
             /\ dsp_log[j].ret = "id" =>
                   \E k \in 1..Len(dsp_stream) : dsp_stream[k].call = j
             /\ \A item \in dsp_dlq : item.call # j
    /\ dsp_counts.dropped + dsp_counts.dlq + dsp_counts.deferred =
          Cardinality({j \in 1..Len(dsp_log) :
                         /\ dsp_log[j].admission \in
                               {"drop", "dlq", "defer",
                                "defer_forced_enqueue"}
                         /\ dsp_log[j].priority < 5})

\* Under the dlq policy an item of priority 5 met a stream at the
\* threshold and was enqueued by the bypass, after an item of priority 4
\* had gone to the DLQ.
C20_Witness ==
    /\ dsp_config.backpressure_enabled
    /\ dsp_config.overflow_policy = "dlq"
    /\ dsp_counts.dlq = 1
    /\ \E j \in 1..Len(dsp_log) :
          /\ dsp_log[j].priority = 5
          /\ dsp_log[j].fullness = 8
          /\ dsp_log[j].admission = "priority_bypass"
          /\ dsp_log[j].ret = "id"
          /\ \E k \in 1..Len(dsp_stream) : dsp_stream[k].call = j


\* The stream entries that dispatch call j has put on the target stream.
EnqueuedBy(j) == {k \in 1..Len(dsp_stream) : dsp_stream[k].call = j}

\* Call j met a pressured stream with an item below the bypass priority
\* under the defer policy.
Deferred(j) ==
    /\ dsp_config.backpressure_enabled
    /\ dsp_config.overflow_policy = "defer"
    /\ dsp_log[j].admission # "deduplicated"
    /\ dsp_log[j].fullness >= 8
    /\ dsp_log[j].priority < 5

\* C21: a deferred dispatch reads the fullness again at most
\* defer_max_attempts times, is admitted at the first reading below the
\* threshold and by forced enqueue after the last one otherwise; its item
\* is put on the target stream exactly once (unless the enqueue itself
\* raises) and is never dropped or moved to the DLQ.
C21_DeferredItemIsEnqueuedOnce ==
    \A j \in 1..Len(dsp_log) :
       Deferred(j) =>
          LET e == dsp_log[j]
              n == Len(e.readings)
          IN /\ n \in 1..3
             /\ \A k \in 1..(n - 1) : e.readings[k] >= 8
             /\ e.admission = IF e.readings[n] < 8 THEN "defer"
                              ELSE "defer_forced_enqueue"
             /\ e.admission = "defer_forced_enqueue" => n = 3
             /\ e.ret \in {"id", "queue_error"}
             /\ Cardinality(EnqueuedBy(j)) = IF e.ret = "id" THEN 1 ELSE 0
             /\ \A item \in dsp_dlq : item.call # j
             /\ dsp_counts.dropped = 0
             /\ dsp_counts.dlq = 0

\* One deferred item was enqueued at its second reading, another by forced
\* enqueue after three pressured readings.
C21_Witness ==
    \E i, j \in 1..Len(dsp_log) :
       /\ Deferred(i) /\ Deferred(j)
       /\ dsp_log[i].admission = "defer"
       /\ Len(dsp_log[i].readings) = 2
       /\ Cardinality(EnqueuedBy(i)) = 1
       /\ dsp_log[j].admission = "defer_forced_enqueue"
       /\ Cardinality(EnqueuedBy(j)) = 1
       /\ dsp_counts.forced_enqueue = 1
       /\ dsp_counts.deferred = 2


(***************************************************************************)
(* One worker's polling loop over its streams (AgentWorker.run)            *)
(***************************************************************************)
\* The list self._streams rotated left by cursor places.
Rotated(pos) ==
    SubSeq(Streams, pos + 1, StreamCount) \o SubSeq(Streams, 1, pos)

\* _next_stream_order without the advance of the cursor.
KeepCursor(pos) == pos

\* _next_stream_order: self._stream_cursor = (cursor + 1) % len(streams).
AdvanceCursor(pos) == (pos + 1) % StreamCount

\* _next_stream_order, with the cursor it leaves behind.
NextStreamOrder ==
    IF ~sch_config.fair_scheduling_enabled \/ StreamCount = 1
    THEN [ordered |-> Streams, cursor |-> stream_cursor]
    ELSE [ordered |-> Rotated(stream_cursor % StreamCount),
          cursor |-> AdvanceCursor(stream_cursor % StreamCount)]

\* _stream_limit_for_cycle.
StreamLimitForCycle(stream_count) ==
    IF sch_config.fair_streams_per_cycle = 0 THEN stream_count
    ELSE Max(1, Min(stream_count, sch_config.fair_streams_per_cycle))

\* What the step for one stream can come to: the stream is at its in-flight
\* cap, the read returns nothing or a batch that is processed, the read
\* raises, an error escapes _process_item, or the task is cancelled.
StreamOutcomes ==
    {"saturated", "empty", "items", "dequeue_error", "process_error",
     "cancelled"}

\* The except clause of the stream step that stops the worker.
AfterStreamErrorStop == "stopped"

\* 'except Exception' of the stream step: log, sleep, next stream.
AfterStreamError == "for"

\* The head of the while loop: leave it on shutdown, else order the streams
\* for a new cycle.
SchedWhile ==
    /\ sch_pc = "while"
    /\ IF sch_shutdown
       THEN /\ sch_pc' = "stopped"
            /\ UNCHANGED <<stream_cursor, ordered_streams, sch_idx, sch_cur>>
       ELSE /\ sch_pc' = "for"
            /\ ordered_streams' = NextStreamOrder.ordered
            /\ stream_cursor' = NextStreamOrder.cursor
            /\ sch_idx' = 0
            /\ sch_cur' = NoCycle
    /\ UNCHANGED <<sch_config, sch_log, sch_errors, sch_shutdown>>
    /\ UNCHANGED otherThanSched

\* The for loop has run out of streams or reached the limit: the cycle is
\* over.  The log keeps the last StreamCount cycles.
SchedCycleEnd ==
    /\ sch_pc = "for"
    /\ \/ sch_idx >= Len(ordered_streams)
       \/ sch_idx >= StreamLimitForCycle(Len(ordered_streams))
    /\ sch_pc' = "while"
    /\ LET cycle == [polled |-> sch_cur.polled,
                     skipped |-> sch_cur.skipped,
                     first |-> ordered_streams[1]]
       IN  sch_log' = IF Len(sch_log) = StreamCount
                      THEN Append(Tail(sch_log), cycle)
                      ELSE Append(sch_log, cycle)
    /\ UNCHANGED <<sch_config, stream_cursor, ordered_streams, sch_idx,
                   sch_cur, sch_errors, sch_shutdown>>
    /\ UNCHANGED otherThanSched

\* One pass of the for loop for the stream at idx.
SchedStream ==
    /\ sch_pc = "for"
    /\ sch_idx < Len(ordered_streams)
    /\ sch_idx < StreamLimitForCycle(Len(ordered_streams))
    /\ IF sch_shutdown
       THEN /\ sch_pc' = "while"
            /\ UNCHANGED <<sch_idx, sch_cur, sch_errors>>
       ELSE \E out \in StreamOutcomes :
            LET s == ordered_streams[sch_idx + 1] IN
            /\ out = "saturated" => sch_config.in_flight_cap
            /\ out \in {"dequeue_error", "process_error"} =>
                   sch_errors < MaxStreamErrors
            /\ sch_idx' = sch_idx + 1
            /\ sch_cur' =
                   [polled |-> IF out \in {"saturated", "cancelled"}
                               THEN sch_cur.polled
                               ELSE sch_cur.polled \cup {s},
                    failed |-> IF out \in {"dequeue_error", "process_error"}
                               THEN sch_cur.failed \cup {s}
                               ELSE sch_cur.failed,
                    skipped |-> IF out = "saturated"
                                THEN sch_cur.skipped \cup {s}
                                ELSE sch_cur.skipped]
            /\ sch_errors' =
                   IF out \in {"dequeue_error", "process_error"}
                   THEN sch_errors + 1 ELSE sch_errors
            /\ sch_pc' =
                   IF out = "cancelled" THEN "cancelled"
                   ELSE IF out \in {"dequeue_error", "process_error"}
                   THEN AfterStreamError
                   ELSE "for"
    /\ UNCHANGED <<sch_config, stream_cursor, ordered_streams, sch_log,
                   sch_shutdown>>
    /\ UNCHANGED otherThanSched

\* WorkerPool.shutdown sets the shared shutdown event.
SchedShutdown ==
    /\ ~sch_shutdown
    /\ sch_pc \notin {"stopped", "cancelled"}
    /\ sch_shutdown' = TRUE
    /\ UNCHANGED <<sch_config, stream_cursor, sch_pc, ordered_streams,
                   sch_idx, sch_cur, sch_log, sch_errors>>
    /\ UNCHANGED otherThanSched

SchedNext ==
    \/ SchedWhile
    \/ SchedCycleEnd
    \/ SchedStream
    \/ SchedShutdown

InitSched ==
    /\ SchedInit
    /\ LeaderParked /\ WatcherParked /\ DocParked /\ WorkerParked
    /\ WriterParked /\ RefreshParked /\ DispatchParked
    /\ ExecParked /\ PolicyParked /\ QueueParked /\ ShutParked
    /\ StoreParked
    /\ FourthParked

SpecSched == InitSched /\ [][SchedNext]_vars

\* The index of stream s in the worker's list.
IndexOf(s) == CHOOSE i \in 1..StreamCount : Streams[i] = s

AllStreams == {Streams[i] : i \in 1..StreamCount}

\* The logged cycles are StreamCount consecutive cycles of a worker with
\* fair scheduling on.
FairWindow ==
    /\ sch_config.fair_scheduling_enabled
    /\ Len(sch_log) = StreamCount

\* Each cycle starts one place further in the list than the cycle before.
RotatesByOne ==
    \A c \in 1..(Len(sch_log) - 1) :
        IndexOf(sch_log[c + 1].first) = (IndexOf(sch_log[c].first) % StreamCount) + 1

\* C22 as stated: with fair scheduling on, the stream order rotates by one
\* place per cycle and every stream is polled (read from) in at least one
\* of any StreamCount consecutive cycles, whatever the streams-per-cycle
\* cap.
C22_EveryStreamPolledInNCycles ==
    sch_config.fair_scheduling_enabled =>
        /\ RotatesByOne
        /\ FairWindow =>
               \A s \in AllStreams :
                   \E c \in 1..StreamCount : s \in sch_log[c].polled

\* C22, amended: with fair scheduling on, the stream order rotates by one
\* place per cycle and every stream gets its turn in at least one of any
\* StreamCount consecutive cycles, whatever the streams-per-cycle cap; at
\* its turn it is read from unless it is at its in-flight cap, and with no
\* in-flight cap configured it is read from at every turn.
C22_EveryStreamGetsItsTurnInNCycles ==
    sch_config.fair_scheduling_enabled =>
        /\ RotatesByOne
        /\ \A c \in 1..Len(sch_log) :
               /\ sch_log[c].first \in sch_log[c].polled \cup sch_log[c].skipped
               /\ sch_log[c].polled \cap sch_log[c].skipped = {}
               /\ ~sch_config.in_flight_cap => sch_log[c].skipped = {}
        /\ FairWindow =>
               \A s \in AllStreams :
                   \E c \in 1..StreamCount :
                       s \in sch_log[c].polled \cup sch_log[c].skipped

\* Three consecutive cycles under a cap of one stream per cycle, each
\* reading from a different stream.
C22_Witness ==
    /\ FairWindow
    /\ sch_config.fair_streams_per_cycle = 1
    /\ \A c \in 1..StreamCount : sch_log[c].polled = {sch_log[c].first}
    /\ {sch_log[c].first : c \in 1..StreamCount} = AllStreams


\* The streams the running cycle has been through, in its order.
VisitedSoFar == {ordered_streams[i] : i \in 1..sch_idx}

\* C23: an error raised while the worker reads from or processes one stream
\* is confined to that stream's turn: the worker is not stopped by it (it
\* leaves the loop only on shutdown or cancellation), and every stream whose
\* turn came in the cycle, before or after the failed one, was read from
\* unless it was at its in-flight cap or the task was cancelled at it.
C23_StreamErrorIsConfined ==
    /\ sch_errors > 0 /\ sch_pc = "stopped" => sch_shutdown
    /\ sch_pc \in {"for", "while"} =>
           VisitedSoFar = sch_cur.polled \cup sch_cur.skipped
    /\ sch_cur.failed \subseteq sch_cur.polled

\* The second stream of the cycle failed and the third was read from after
\* it, in a cycle that follows one with an error of its own.
C23_Witness ==
    /\ sch_pc = "for"
    /\ sch_errors = 2
    /\ Len(sch_log) >= 1
    /\ sch_idx = 3
    /\ sch_cur.failed = {ordered_streams[2]}
    /\ sch_cur.polled = {ordered_streams[2], ordered_streams[3]}


(***************************************************************************)
(* The per-agent failure budget and quarantine (Executor)                  *)
(***************************************************************************)
\* _is_agent_quarantined that never reports a quarantine.
NeverQuarantined(until, t) == FALSE

\* _is_agent_quarantined: 'if until <= now: ... return False; return True'.
IsAgentQuarantined(until, t) == until > t

\* The entry _is_agent_quarantined leaves in _agent_quarantine_until: an
\* entry that is not in the future is popped.
QuarantineAfterCheck(until, t) == IF until <= t THEN 0 ELSE until

\* The failure window with nothing dropped from it.
KeepAll(failures, cutoff) == failures

\* 'while failures and failures[0] < cutoff: failures.popleft()'.
PopOld(failures, cutoff) ==
    LET stays == {i \in 1..Len(failures) : failures[i] >= cutoff}
        first == IF stays = {} THEN Len(failures) + 1
                 ELSE CHOOSE i \in stays : \A k \in stays : i <= k
    IN  SubSeq(failures, first, Len(failures))

\* _record_agent_outcome(agent_id, False) at time t: the window and the
\* quarantine entry it leaves, and whether it entered quarantine.
RecordFailure(failures, until, t) ==
    LET kept == PopOld(Append(failures, t), t - BudgetWindow) IN
    IF Len(kept) < BudgetMaxFailures
    THEN [events |-> kept, until |-> until, entered |-> FALSE]
    ELSE [events |-> <<>>, until |-> t + QuarantineTicks, entered |-> TRUE]

\* The state _record_agent_outcome leaves after a failure at the current
\* time, with its entry in the history.
RecordAgentOutcomeFailed(until) ==
    LET rec == RecordFailure(failure_events, until, ex_now) IN
    /\ failure_events' = rec.events
    /\ quarantine_until' = rec.until
    /\ budget_log' = Append(budget_log,
                            [at |-> ex_now, entered |-> rec.entered,
                             until |-> rec.until, events |-> rec.events])

\* time.monotonic() moves on.
ExecTick ==
    /\ ex_now < MaxClock
    /\ ex_now' = ex_now + 1
    /\ UNCHANGED <<failure_events, quarantine_until, ex_cache, ex_pc,
                   ex_start_q, ex_started, ex_runs, budget_log>>
    /\ UNCHANGED otherThanExec

\* execute up to its first suspension: the agent from the cache, the
\* enabled check, the quarantine check.
ExecStart(w) ==
    /\ ex_pc[w] = "idle"
    /\ ex_started < MaxExecs
    /\ ex_started' = ex_started + 1
    /\ LET in_q == quarantine_until > ex_now IN
       IF ~ex_cache[w]
       THEN /\ RecordAgentOutcomeFailed(quarantine_until)
            /\ ex_runs' = ex_runs \cup
                   {[start_q |-> in_q, enabled |-> FALSE,
                     reason |-> "agent_disabled", ai |-> "none"]}
            /\ UNCHANGED <<ex_pc, ex_start_q>>
       ELSE IF IsAgentQuarantined(quarantine_until, ex_now)
       THEN /\ ex_runs' = ex_runs \cup
                   {[start_q |-> in_q, enabled |-> TRUE,
                     reason |-> "agent_quarantined", ai |-> "none"]}
            /\ UNCHANGED <<failure_events, quarantine_until, budget_log,
                           ex_pc, ex_start_q>>
       ELSE /\ quarantine_until' =
                   QuarantineAfterCheck(quarantine_until, ex_now)
            /\ ex_pc' = [ex_pc EXCEPT ![w] = "pipeline"]
            /\ ex_start_q' = [ex_start_q EXCEPT ![w] = in_q]
            /\ UNCHANGED <<failure_events, budget_log, ex_runs>>
    /\ UNCHANGED <<ex_now, ex_cache>>
    /\ UNCHANGED otherThanExec

\* The rest of execute: the semaphore, _execute_pipeline under wait_for
\* with its provider call, and the outcome recorded against the budget.
ExecPipeline(w) ==
    /\ ex_pc[w] = "pipeline"
    /\ \E reason \in {"ok", "pipeline_error", "timeout"}, ai_made \in BOOLEAN :
        /\ reason \in {"ok", "timeout"} => ai_made
        /\ ex_runs' = ex_runs \cup
               {[start_q |-> ex_start_q[w], enabled |-> TRUE,
                 reason |-> reason,
                 ai |-> IF ~ai_made THEN "none"
                        ELSE IF quarantine_until > ex_now THEN "quarantined"
                        ELSE "clear"]}
        /\ IF reason = "ok"
           THEN UNCHANGED <<failure_events, quarantine_until, budget_log>>
           ELSE RecordAgentOutcomeFailed(quarantine_until)
    /\ ex_pc' = [ex_pc EXCEPT ![w] = "idle"]
    /\ ex_start_q' = [ex_start_q EXCEPT ![w] = FALSE]
    /\ UNCHANGED <<ex_now, ex_cache, ex_started>>
    /\ UNCHANGED otherThanExec

ExecNext ==
    \/ ExecTick
    \/ \E w \in ExecWorkers : ExecStart(w)
    \/ \E w \in ExecWorkers : ExecPipeline(w)

InitExec ==
    /\ ExecInit
    /\ LeaderParked /\ WatcherParked /\ DocParked /\ WorkerParked
    /\ WriterParked /\ RefreshParked /\ DispatchParked
    /\ SchedParked /\ PolicyParked /\ QueueParked /\ ShutParked
    /\ StoreParked
    /\ FourthParked

SpecExec == InitExec /\ [][ExecNext]_vars

LastEntered(k) ==
    IF \E j \in 1..(k - 1) : budget_log[j].entered
    THEN CHOOSE j \in 1..(k - 1) :
            /\ budget_log[j].entered
            /\ \A i \in (j + 1)..(k - 1) : ~budget_log[i].entered
    ELSE 0

\* The failures up to the k-th that lie inside the sliding window at the
\* k-th: recorded since the window was last cleared and no longer than
\* BudgetWindow ago.
InWindow(k) ==
    {j \in (LastEntered(k) + 1)..k :
        budget_log[j].at >= budget_log[k].at - BudgetWindow}

\* C25: a recorded failure puts the agent in quarantine exactly when it
\* brings the number of failures inside the sliding window to
\* BudgetMaxFailures; quarantine-until is then the time of that failure plus
\* QuarantineTicks and the window is cleared.  Otherwise the window holds
\* just the failures inside it, fewer than BudgetMaxFailures, and the agent
\* has a quarantine-until only from such an entry.
C25_QuarantineExactlyAtMaxFailuresInWindow ==
    /\ \A k \in 1..Len(budget_log) :
           LET e == budget_log[k] IN
           /\ e.entered <=> Cardinality(InWindow(k)) >= BudgetMaxFailures
           /\ e.entered =>
                  /\ Cardinality(InWindow(k)) = BudgetMaxFailures
                  /\ e.until = e.at + QuarantineTicks
                  /\ e.events = <<>>
           /\ ~e.entered =>
                  /\ Len(e.events) = Cardinality(InWindow(k))
                  /\ Len(e.events) < BudgetMaxFailures
    /\ quarantine_until # 0 =>
           \E k \in 1..Len(budget_log) :
               /\ budget_log[k].entered
               /\ budget_log[k].until = quarantine_until
    /\ Len(failure_events) < BudgetMaxFailures

\* Quarantine entered at a failure that follows one too old to count.
C25_Witness ==
    \E k \in 1..Len(budget_log) :
        /\ budget_log[k].entered
        /\ quarantine_until = budget_log[k].at + QuarantineTicks
        /\ failure_events = <<>>
        /\ \E j \in (LastEntered(k) + 1)..(k - 1) :
               budget_log[j].at < budget_log[k].at - BudgetWindow


(***************************************************************************)
(* Policy evaluation and writeback (Executor._execute_pipeline)            *)
(***************************************************************************)
\* 'action = policy.action if matched else policy.fallback_action'.
ResolvedAction(policy, matched) ==
    IF matched THEN policy.action ELSE policy.fallback_action

\* _evaluate_policy without the simulation_mode return.
EvaluatePolicyNoSimulation(policy, matched) ==
    IF policy = NoPolicy THEN [should_write |-> TRUE, action |-> "enrich"]
    ELSE LET action == ResolvedAction(policy, matched) IN
         IF action \in {"skip", "block"}
         THEN [should_write |-> FALSE, action |-> action]
         ELSE [should_write |-> TRUE, action |-> action]

\* _evaluate_policy: (should_write, action).
EvaluatePolicy(policy, matched) ==
    IF policy = NoPolicy THEN [should_write |-> TRUE, action |-> "enrich"]
    ELSE LET action == ResolvedAction(policy, matched) IN
         IF policy.simulation_mode
         THEN [should_write |-> FALSE, action |-> "simulation"] \* :<action>
         ELSE IF action \in {"skip", "block"}
         THEN [should_write |-> FALSE, action |-> action]
         ELSE [should_write |-> TRUE, action |-> action]

\* What ResultWriter.write can come to, and whether update_one was called
\* on the way.
WriteOutcomes ==
    {[written |-> TRUE, reason |-> "written", issued |-> TRUE],
     [written |-> FALSE, reason |-> "idempotency_duplicate", issued |-> FALSE],
     [written |-> FALSE, reason |-> "hash_conflict", issued |-> FALSE],
     [written |-> FALSE, reason |-> "strict_version_conflict", issued |-> TRUE],
     [written |-> FALSE, reason |-> "document_not_found", issued |-> TRUE],
     [written |-> FALSE, reason |-> "write_error", issued |-> TRUE],
     [written |-> FALSE, reason |-> "write_error", issued |-> FALSE]}

\* _evaluate_policy and, when it says not to write, the result returned.
PolEvaluate ==
    /\ pol_pc = "parsed"
    /\ \E matched \in BOOLEAN :
        LET policy == pol_agent.policy
            ev == EvaluatePolicy(policy, matched)
        IN  /\ policy = NoPolicy => matched
            /\ (policy # NoPolicy /\ ~policy.has_condition) => matched
            /\ pol_matched' = matched
            /\ pol_action' = ev.action
            /\ pol_tagged' = (ev.should_write /\ ev.action = "tag")
            /\ IF ev.should_write
               THEN /\ pol_pc' = "write"
                    /\ UNCHANGED pol_result
               ELSE /\ pol_pc' = "done"
                    /\ pol_result' = [success |-> TRUE,
                                      lifecycle_state |-> "write_skipped",
                                      written |-> FALSE,
                                      reason |-> "policy"]
    /\ UNCHANGED <<pol_agent, pol_client, pol_updates>>
    /\ UNCHANGED otherThanPolicy

\* _write_result and the result returned after it.
PolWrite ==
    /\ pol_pc = "write"
    /\ \E out \in WriteOutcomes :
        LET wr == IF pol_agent.consistency_mode = "shadow"
                  THEN [written |-> FALSE, reason |-> "shadow_mode",
                        issued |-> FALSE]
                  ELSE IF ~pol_client
                  THEN [written |-> FALSE, reason |-> "missing_mongo_client",
                        issued |-> FALSE]
                  ELSE out
        IN  /\ wr.reason = "strict_version_conflict" =>
                   pol_agent.consistency_mode = "strict_post_commit"
            /\ wr.reason = "hash_conflict" =>
                   pol_agent.consistency_mode = "strict_post_commit"
            /\ pol_updates' = IF wr.issued THEN pol_updates + 1
                              ELSE pol_updates
            /\ pol_result' = [success |-> TRUE,
                              lifecycle_state |-> IF wr.written THEN "written"
                                                  ELSE "write_skipped",
                              written |-> wr.written,
                              reason |-> wr.reason]
    /\ pol_pc' = "done"
    /\ UNCHANGED <<pol_agent, pol_client, pol_matched, pol_action,
                   pol_tagged>>
    /\ UNCHANGED otherThanPolicy

PolicyNext ==
    \/ PolEvaluate
    \/ PolWrite

InitPolicy ==
    /\ PolicyInit
    /\ LeaderParked /\ WatcherParked /\ DocParked /\ WorkerParked
    /\ WriterParked /\ RefreshParked /\ DispatchParked
    /\ SchedParked /\ ExecParked /\ QueueParked /\ ShutParked
    /\ StoreParked
    /\ FourthParked

SpecPolicy == InitPolicy /\ [][PolicyNext]_vars

\* The policy action the claim calls resolved: action when the condition
\* matches, fallback_action otherwise; an agent without policy enriches.
C26_Resolved ==
    IF pol_agent.policy = NoPolicy THEN "enrich"
    ELSE IF pol_matched THEN pol_agent.policy.action
    ELSE pol_agent.policy.fallback_action

C26_MayWrite ==
    /\ pol_agent.consistency_mode # "shadow"
    /\ ~pol_agent.policy.simulation_mode
    /\ C26_Resolved \in {"enrich", "tag"}

\* C26: an update is issued to the target document only if the consistency
\* mode is not shadow, simulation_mode is off and the resolved policy action
\* is enrich or tag; in every other case the pipeline issues no update and
\* returns a success with lifecycle_state write_skipped.
C26_UpdateOnlyWhenPolicyAndModeAllow ==
    /\ pol_updates > 0 => C26_MayWrite
    /\ (pol_pc = "done" /\ ~C26_MayWrite) =>
           /\ pol_updates = 0
           /\ pol_result.success
           /\ ~pol_result.written
           /\ pol_result.lifecycle_state = "write_skipped"
    /\ pol_tagged => C26_Resolved = "tag"

\* A pipeline that ended without an update because simulation_mode is on,
\* for an agent whose action is enrich and whose mode is eventual.
C26_Witness ==
    /\ pol_pc = "done"
    /\ pol_agent.consistency_mode = "eventual"
    /\ pol_agent.policy # NoPolicy
    /\ pol_agent.policy.simulation_mode
    /\ C26_Resolved = "enrich"
    /\ pol_client
    /\ pol_updates = 0
    /\ pol_result.lifecycle_state = "write_skipped"


(***************************************************************************)
(* One stream, its consumer group and the DLQ (RedisStreamBackend)         *)
(***************************************************************************)
\* The entries a read of count entries past the last-delivered id returns.
NeverDelivered(count) ==
    {m \in (q_last + 1)..Len(q_stream) : m <= q_last + count}

\* The set s of entry ids as a sequence in id order.
RECURSIVE InIdOrder(_)
InIdOrder(s) ==
    IF s = {} THEN <<>>
    ELSE LET m == CHOOSE x \in s : \A y \in s : x <= y
         IN  <<m>> \o InIdOrder(s \ {m})

\* The deliveries of the well-formed entries among ms, each with the attempt
\* its deserialized work item carries plus bump.
RECURSIVE DeliveriesOf(_, _, _)
DeliveriesOf(ms, via, bump) ==
    IF ms = <<>> THEN <<>>
    ELSE IF q_stream[Head(ms)].ok
    THEN <<[entry |-> Head(ms), via |-> via,
            attempt |-> q_stream[Head(ms)].attempt + bump]>>
         \o DeliveriesOf(Tail(ms), via, bump)
    ELSE DeliveriesOf(Tail(ms), via, bump)

\* The dispatcher enqueues the work item, with attempt 0.
QEnqueueItem ==
    /\ \A m \in 1..Len(q_stream) : ~q_stream[m].ok
    /\ q_dlq = <<>>
    /\ q_deliveries = <<>>
    /\ Len(q_stream) < MaxQueueEntries
    /\ q_stream' = Append(q_stream, [attempt |-> 0, ok |-> TRUE])
    /\ UNCHANGED <<q_last, q_pending, q_batch, q_dlq, q_poison,
                   q_deliveries, q_reads>>
    /\ UNCHANGED otherThanQueue

\* An entry whose data does not deserialize is on the stream.
QEnqueueMalformed ==
    /\ Len(q_stream) < MaxQueueEntries
    /\ \A m \in 1..Len(q_stream) : q_stream[m].ok
    /\ q_stream' = Append(q_stream, [attempt |-> 0, ok |-> FALSE])
    /\ UNCHANGED <<q_last, q_pending, q_batch, q_dlq, q_poison,
                   q_deliveries, q_reads>>
    /\ UNCHANGED otherThanQueue

\* dequeue: XREADGROUP '>' of up to DequeueCount entries, which become
\* pending; the entries that deserialize are returned, the others are
\* acked, and ack swallows a failure of XACK.
QDequeue ==
    /\ q_batch = <<>>
    /\ NeverDelivered(DequeueCount) # {}
    /\ Len(q_reads) < MaxReads
    /\ Len(q_deliveries) < MaxDeliveries
    /\ \E ack_ok \in BOOLEAN :
        LET read == NeverDelivered(DequeueCount)
            good == {m \in read : q_stream[m].ok}
            bad == read \ good
        IN  /\ bad = {} => ack_ok
            /\ q_last' = q_last + Cardinality(read)
            /\ q_pending' = IF ack_ok THEN q_pending \cup good
                            ELSE q_pending \cup read
            /\ q_batch' = InIdOrder(good)
            /\ q_deliveries' =
                   q_deliveries \o DeliveriesOf(InIdOrder(read), "dequeue", 0)
            /\ q_reads' = Append(q_reads, [read |-> read, returned |-> good])
    /\ UNCHANGED <<q_stream, q_dlq, q_poison>>
    /\ UNCHANGED otherThanQueue

\* The worker handles the first entry of its batch: on success the ack; on
\* failure the copy with attempt + 1 or the DLQ, then the ack.  A refused
\* enqueue raises and the rest of the batch is dropped.
QProcess ==
    /\ q_batch # <<>>
    /\ \E success \in BOOLEAN, enqueue_ok \in BOOLEAN, ack_ok \in BOOLEAN :
        LET m == Head(q_batch)
            e == q_stream[m]
            acked == IF ack_ok THEN q_pending \ {m} ELSE q_pending
        IN  /\ success => enqueue_ok
            /\ IF success
               THEN /\ q_pending' = acked
                    /\ q_batch' = Tail(q_batch)
                    /\ UNCHANGED <<q_stream, q_dlq>>
               ELSE IF ~enqueue_ok
               THEN /\ q_batch' = <<>>
                    /\ UNCHANGED <<q_stream, q_dlq, q_pending>>
               ELSE IF ShouldRetry(e)
               THEN /\ Len(q_stream) < MaxQueueEntries
                    /\ q_stream' = Append(q_stream, IncrementAttempt(e))
                    /\ q_pending' = acked
                    /\ q_batch' = Tail(q_batch)
                    /\ UNCHANGED q_dlq
               ELSE /\ q_dlq' = Append(q_dlq, e)
                    /\ q_pending' = acked
                    /\ q_batch' = Tail(q_batch)
                    /\ UNCHANGED q_stream
    /\ UNCHANGED <<q_last, q_poison, q_deliveries, q_reads>>
    /\ UNCHANGED otherThanQueue

\* claim_pending: the pending entries idle for min_idle_ms are claimed and
\* returned with increment_attempt applied to the deserialized copy; an
\* entry that does not deserialize is passed over.  The stream entries and
\* the pending list stay as they are.
QClaimPending ==
    /\ Len(q_deliveries) < MaxDeliveries
    /\ \E idle \in SUBSET q_pending :
        /\ \E m \in idle : q_stream[m].ok
        /\ q_deliveries' =
               q_deliveries \o DeliveriesOf(InIdOrder(idle), "claim", 1)
    /\ UNCHANGED <<q_stream, q_last, q_pending, q_batch, q_dlq, q_poison,
                   q_reads>>
    /\ UNCHANGED otherThanQueue

\* DeadLetterQueue.retry: 'work_item.attempt = 0', enqueue on the target
\* stream, delete from the DLQ.
QDlqRetry ==
    /\ q_dlq # <<>>
    /\ Len(q_stream) < MaxQueueEntries
    /\ q_stream' = Append(q_stream, [Head(q_dlq) EXCEPT !.attempt = 0])
    /\ q_dlq' = Tail(q_dlq)
    /\ UNCHANGED <<q_last, q_pending, q_batch, q_poison, q_deliveries,
                   q_reads>>
    /\ UNCHANGED otherThanQueue

QueueNext ==
    \/ QEnqueueItem
    \/ QEnqueueMalformed
    \/ QDequeue
    \/ QProcess
    \/ QClaimPending
    \/ QDlqRetry

InitQueue ==
    /\ QueueInit
    /\ LeaderParked /\ WatcherParked /\ DocParked /\ WorkerParked
    /\ WriterParked /\ RefreshParked /\ DispatchParked
    /\ SchedParked /\ ExecParked /\ PolicyParked /\ ShutParked
    /\ StoreParked
    /\ FourthParked

SpecQueue == InitQueue /\ [][QueueNext]_vars

\* C27: the attempt values the work item is delivered with, by dequeue after
\* a retry re-enqueue and by claim_pending, never go down from one delivery
\* to a later one.
C27_AttemptNeverDecreases ==
    \A i, j \in 1..Len(q_deliveries) :
        i < j => q_deliveries[i].attempt <= q_deliveries[j].attempt

\* The malformed entries that calls of dequeue have read.
PoisonRead ==
    {m \in 1..Len(q_stream) :
        /\ ~q_stream[m].ok
        /\ \E k \in 1..Len(q_reads) : m \in q_reads[k].read}

\* C28: a malformed entry read by dequeue is acked and counted by the poison
\* counter, is not returned and is never delivered, while the well-formed
\* entries of the same read are returned.
C28_PoisonEntryIsAckedAndCounted ==
    /\ \A k \in 1..Len(q_reads) : \A m \in q_reads[k].read :
           IF q_stream[m].ok THEN m \in q_reads[k].returned
           ELSE /\ m \notin q_reads[k].returned
                /\ m \notin q_pending
                /\ \A d \in 1..Len(q_deliveries) : q_deliveries[d].entry # m
    /\ q_poison = Cardinality(PoisonRead)


(***************************************************************************)
(* Shutdown of the worker pool (WorkerPool.shutdown, AgentWorker)          *)
(***************************************************************************)
ShutdownSet == sd_signal_at # Absent

\* asyncio.sleep(delay): a sleep that the shutdown event does not end.
PlainSleepOver(left) == left = 0

\* _sleep_with_shutdown: wait_for(shutdown_event.wait(), timeout=delay)
\* returns when the event is set or the delay is over.
SleepWithShutdownOver(left) == left = 0 \/ ShutdownSet

\* The wait of WorkerPool.shutdown for the worker tasks has timed out.
DeadlineReached ==
    ShutdownSet /\ sd_now >= sd_signal_at + ShutdownTimeout

\* A step of the worker or of the pool is due now.
SomethingDue ==
    \/ sd_pc = "executing" /\ sd_exec_left = 0
    \/ sd_pc = "backoff" /\ SleepWithShutdownOver(sd_sleep_left)
    \/ sd_pc = "idle" /\ ShutdownSet
    \/ sd_pool = "waiting" /\ (DeadlineReached \/ sd_pc = "stopped")

\* Time passes while the worker executes, sleeps or waits for entries.
ShutTick ==
    /\ sd_now < MaxShutClock
    /\ ~SomethingDue
    /\ sd_now' = sd_now + 1
    /\ sd_exec_left' = IF sd_pc = "executing" THEN sd_exec_left - 1
                       ELSE sd_exec_left
    /\ sd_sleep_left' = IF sd_pc = "backoff" THEN sd_sleep_left - 1
                        ELSE sd_sleep_left
    /\ UNCHANGED <<sd_signal_at, sd_pool, sd_pc, sd_item, sd_taken,
                   sd_at_signal, sd_woke_at, sd_done_at>>
    /\ UNCHANGED otherThanShut

\* The worker dequeues an item and calls executor.execute, which returns
\* after some time no longer than the execution timeout.
ShutTake ==
    /\ sd_pc = "idle"
    /\ ~ShutdownSet
    /\ sd_taken < MaxShutItems
    /\ \E d \in 1..MaxExecTicks : sd_exec_left' = d
    /\ sd_pc' = "executing"
    /\ sd_item' = "in_flight"
    /\ sd_taken' = sd_taken + 1
    /\ sd_woke_at' = Absent
    /\ sd_done_at' = Absent
    /\ UNCHANGED <<sd_now, sd_signal_at, sd_pool, sd_sleep_left,
                   sd_at_signal>>
    /\ UNCHANGED otherThanShut

\* executor.execute has returned or raised: the ack after a success, the
\* move to the DLQ and the ack, or the retry delay before the re-enqueue.
\* A queue operation that raises leaves the item unacknowledged.
ShutExecuted ==
    /\ sd_pc = "executing"
    /\ sd_exec_left = 0
    /\ \E success \in BOOLEAN, should_retry \in BOOLEAN, queue_ok \in BOOLEAN,
          delay \in 1..MaxBackoffTicks :
        IF success
        THEN /\ sd_item' = "success"
             /\ sd_done_at' = sd_now
             /\ sd_pc' = "idle"
             /\ UNCHANGED sd_sleep_left
        ELSE IF should_retry
        THEN /\ sd_pc' = "backoff"
             /\ sd_sleep_left' = delay
             /\ UNCHANGED <<sd_item, sd_done_at>>
        ELSE /\ sd_item' = IF queue_ok THEN "dlq" ELSE "unacked"
             /\ sd_done_at' = IF queue_ok THEN sd_now ELSE Absent
             /\ sd_pc' = "idle"
             /\ UNCHANGED sd_sleep_left
    /\ UNCHANGED <<sd_now, sd_signal_at, sd_pool, sd_exec_left, sd_taken,
                   sd_at_signal, sd_woke_at>>
    /\ UNCHANGED otherThanShut

\* The retry sleep is over: queue.enqueue of the copy, then the ack.
ShutReenqueue ==
    /\ sd_pc = "backoff"
    /\ SleepWithShutdownOver(sd_sleep_left)
    /\ sd_woke_at' = sd_now
    /\ \E queue_ok \in BOOLEAN :
        /\ sd_item' = IF queue_ok THEN "retried" ELSE "unacked"
        /\ sd_done_at' = IF queue_ok THEN sd_now ELSE Absent
    /\ sd_pc' = "idle"
    /\ UNCHANGED <<sd_now, sd_signal_at, sd_pool, sd_exec_left,
                   sd_sleep_left, sd_taken, sd_at_signal>>
    /\ UNCHANGED otherThanShut

\* WorkerPool.shutdown up to its wait: the shutdown event is set.
ShutSignal ==
    /\ sd_pool = "running"
    /\ sd_pool' = "waiting"
    /\ sd_signal_at' = sd_now
    /\ sd_at_signal' = IF sd_pc \in {"executing", "backoff"} THEN sd_pc
                       ELSE "none"
    /\ UNCHANGED <<sd_now, sd_pc, sd_item, sd_exec_left, sd_sleep_left,
                   sd_taken, sd_woke_at, sd_done_at>>
    /\ UNCHANGED otherThanShut

\* The worker's while loop sees the event and run() returns.
ShutWorkerStops ==
    /\ sd_pc = "idle"
    /\ ShutdownSet
    /\ sd_pc' = "stopped"
    /\ UNCHANGED <<sd_now, sd_signal_at, sd_pool, sd_item, sd_exec_left,
                   sd_sleep_left, sd_taken, sd_at_signal, sd_woke_at,
                   sd_done_at>>
    /\ UNCHANGED otherThanShut

\* asyncio.wait returns: the worker task is done, or the timeout is over
\* and the task is cancelled where it stands.
ShutWaitOver ==
    /\ sd_pool = "waiting"
    /\ \/ /\ sd_pc = "stopped"
          /\ UNCHANGED <<sd_pc, sd_item>>
       \/ /\ DeadlineReached
          /\ sd_pc # "stopped"
          /\ sd_pc' = "cancelled"
          /\ sd_item' = IF sd_pc \in {"executing", "backoff"}
                        THEN "cancelled" ELSE sd_item
    /\ sd_pool' = "complete"
    /\ UNCHANGED <<sd_now, sd_signal_at, sd_exec_left, sd_sleep_left,
                   sd_taken, sd_at_signal, sd_woke_at, sd_done_at>>
    /\ UNCHANGED otherThanShut

ShutNext ==
    \/ ShutTick
    \/ ShutTake
    \/ ShutExecuted
    \/ ShutReenqueue
    \/ ShutSignal
    \/ ShutWorkerStops
    \/ ShutWaitOver

InitShut ==
    /\ ShutInit
    /\ LeaderParked /\ WatcherParked /\ DocParked /\ WorkerParked
    /\ WriterParked /\ RefreshParked /\ DispatchParked
    /\ SchedParked /\ ExecParked /\ PolicyParked /\ QueueParked
    /\ StoreParked
    /\ FourthParked

SpecShut == InitShut /\ [][ShutNext]_vars

TerminalStates == {"success", "retried", "dlq"}

VersionWritten(held) == held + 1

\* AgentStore.get: the caller holds the agent as stored now.
StGet(c) ==
    /\ st_copy[c] # st_version
    /\ st_copy' = [st_copy EXCEPT ![c] = st_version]
    /\ UNCHANGED <<st_version, st_log>>
    /\ UNCHANGED otherThanStore

\* AgentStore.update with the AgentConfig the caller holds.
StUpdate(c) ==
    /\ st_copy[c] # 0
    /\ Len(st_log) < MaxStoreWrites
    /\ st_copy' = [st_copy EXCEPT ![c] = VersionWritten(st_copy[c])]
    /\ st_version' = VersionWritten(st_copy[c])
    /\ st_log' = Append(st_log, [op |-> "update", before |-> st_version,
                                 after |-> VersionWritten(st_copy[c])])
    /\ UNCHANGED otherThanStore

\* AgentStore.enable and AgentStore.disable: $set of the flag, $inc of the
\* version.
StEnableDisable ==
    /\ Len(st_log) < MaxStoreWrites
    /\ \E op \in {"enable", "disable"} :
        st_log' = Append(st_log, [op |-> op, before |-> st_version,
                                  after |-> st_version + 1])
    /\ st_version' = st_version + 1
    /\ UNCHANGED st_copy
    /\ UNCHANGED otherThanStore

StoreNext ==
    \/ \E c \in StoreCallers : StGet(c)
    \/ \E c \in StoreCallers : StUpdate(c)
    \/ StEnableDisable

InitStore ==
    /\ StoreInit
    /\ LeaderParked /\ WatcherParked /\ DocParked /\ WorkerParked
    /\ WriterParked /\ RefreshParked /\ DispatchParked
    /\ SchedParked /\ ExecParked /\ PolicyParked /\ QueueParked
    /\ ShutParked
    /\ FourthParked

SpecStore == InitStore /\ [][StoreNext]_vars

\* C30: every update, enable and disable that succeeded left the stored
\* version exactly one above the stored version just before it.
C30_VersionGoesUpByOne ==
    \A k \in 1..Len(st_log) : st_log[k].after = st_log[k].before + 1


(***************************************************************************)
(* The in-flight cap of an agent stream (AgentWorker.run, several workers) *)
(***************************************************************************)
\* A producer adds an entry to the stream.
IfEnqueue ==
    /\ if_queue < MaxInflightItems
    /\ if_queue' = if_queue + 1
    /\ UNCHANGED <<if_cap, if_counts, if_pc, if_left, if_skips>>
    /\ UNCHANGED otherThanInflight

\* _is_stream_saturated: the counter is read and compared with the cap.
IsStreamSaturated == if_counts >= if_cap

\* run(): the worker reaches the stream; a saturated stream is skipped with
\* a saturation skip recorded, otherwise the worker goes on to the dequeue.
IfCheck(w) ==
    /\ if_pc[w] = "top"
    /\ IF IsStreamSaturated
       THEN /\ if_skips' = IF if_skips < MaxSkips THEN if_skips + 1
                           ELSE if_skips
            /\ UNCHANGED if_pc
       ELSE /\ if_pc' = [if_pc EXCEPT ![w] = "dequeue"]
            /\ UNCHANGED if_skips
    /\ UNCHANGED <<if_cap, if_counts, if_queue, if_left>>
    /\ UNCHANGED otherThanInflight

\* run(): 'await self._queue.dequeue(...)' returns up to the dequeue count
\* of new entries; with none the worker moves on.
IfDequeue(w) ==
    /\ if_pc[w] = "dequeue"
    /\ LET n == IF if_queue < InflightBatch THEN if_queue ELSE InflightBatch
       IN  /\ if_queue' = if_queue - n
           /\ if_left' = [if_left EXCEPT ![w] = n]
           /\ if_pc' = [if_pc EXCEPT ![w] = IF n = 0 THEN "top" ELSE "items"]
    /\ UNCHANGED <<if_cap, if_counts, if_skips>>
    /\ UNCHANGED otherThanInflight

\* _increment_stream_inflight, after which _process_item runs.
IfIncrement(w) ==
    /\ if_pc[w] = "items"
    /\ if_counts' = if_counts + 1
    /\ if_pc' = [if_pc EXCEPT ![w] = "processing"]
    /\ UNCHANGED <<if_cap, if_queue, if_left, if_skips>>
    /\ UNCHANGED otherThanInflight

\* _process_item has returned or raised: the finally clause runs
\* _decrement_stream_inflight, and the loop goes to the batch's next item.
IfProcessed(w) ==
    /\ if_pc[w] = "processing"
    /\ if_counts' = IF if_counts > 0 THEN if_counts - 1 ELSE 0
    /\ if_left' = [if_left EXCEPT ![w] = if_left[w] - 1]
    /\ if_pc' = [if_pc EXCEPT ![w] = IF if_left[w] = 1 THEN "top"
                                     ELSE "items"]
    /\ UNCHANGED <<if_cap, if_queue, if_skips>>
    /\ UNCHANGED otherThanInflight

InflightNext ==
    \/ IfEnqueue
    \/ \E w \in InflightWorkers : IfCheck(w)
    \/ \E w \in InflightWorkers : IfDequeue(w)
    \/ \E w \in InflightWorkers : IfIncrement(w)
    \/ \E w \in InflightWorkers : IfProcessed(w)

InitInflight == InflightInit /\ InflightRest

SpecInflight == InitInflight /\ [][InflightNext]_vars

\* The items of the stream that are being processed now, over all workers.
InProcessing == {w \in InflightWorkers : if_pc[w] = "processing"}

\* C31: the number of items of the stream that are being processed at the
\* same time, counted over all workers, never exceeds the cap.
C31_InFlightNeverExceedsCap == Cardinality(InProcessing) <= if_cap


(***************************************************************************)
(* An agent that writes back to the collection it watches                  *)
(* (EventMatcher, AgentDispatcher.dispatch, Executor, ResultWriter)        *)
(***************************************************************************)
\* The ids something still refers to: the stamp of the stored document, of
\* the documents carried by events, work items and keys, and the ids of the
\* work items on the stream.
LiveIds ==
    {lp_doc.stamp}
        \cup {lp_events[k].doc.stamp : k \in 1..Len(lp_events)}
        \cup {lp_stream[k].doc.stamp : k \in 1..Len(lp_stream)}
        \cup {lp_stream[k].id : k \in 1..Len(lp_stream)}
        \cup {key.stamp : key \in lp_keys}

\* WorkItem.id (a new uuid).
FreshId == CHOOSE i \in 1..LoopIds : i \notin LiveIds

\* WorkItem.generate_idempotency_key: the digest of every field of the full
\* document, _ai_metadata among them.
LoopKey(doc) == doc

\* EventMatcher._matches_agent for an agent without a filter: the event's
\* operation is one of watch.operations, which hold insert here.
MatchesAgent(event) ==
    event.op = "insert" \/ (event.op = "update" /\ lp_cfg.watch_updates)

\* _add_to_cache: the sets it can leave.
LoopAddToCache(key) ==
    LET added == lp_keys \cup {key}
    IN IF Cardinality(added) > LoopCacheSize
       THEN {added \ gone : gone \in
                {g \in SUBSET added :
                    Cardinality(g) = LoopCacheSize \div 2}}
       ELSE {added}

\* The user's mutation: the document is inserted.
LpUserWrite ==
    /\ ~lp_user
    /\ lp_user' = TRUE
    /\ lp_doc' = [content |-> 1, enriched |-> FALSE, stamp |-> 0]
    /\ lp_events' = Append(lp_events, [op |-> "insert", doc |-> lp_doc'])
    /\ UNCHANGED <<lp_cfg, lp_keys, lp_idem, lp_stream, lp_runs>>
    /\ UNCHANGED otherThanLoop

\* _handle_change: the event is matched and, for the agent it matches,
\* dispatched: the key is looked up in and added to the cache when
\* deduplicate is on, and the work item is enqueued.
LpHandleChange ==
    /\ lp_events # <<>>
    /\ LET event == Head(lp_events)
           key == LoopKey(event.doc)
       IN  /\ lp_events' = Tail(lp_events)
           /\ IF ~MatchesAgent(event)
              THEN UNCHANGED <<lp_keys, lp_stream, lp_idem>>
              ELSE IF lp_cfg.deduplicate /\ key \in lp_keys
              THEN UNCHANGED <<lp_keys, lp_stream, lp_idem>>
              ELSE /\ IF lp_cfg.deduplicate
                      THEN lp_keys' \in LoopAddToCache(key)
                      ELSE UNCHANGED lp_keys
                   /\ lp_stream' =
                        Append(lp_stream,
                               [id |-> FreshId, doc |-> event.doc,
                                keyed |-> lp_cfg.deduplicate])
                   \* a recorded key of an id taken again is another key
                   /\ lp_idem' = {k \in lp_idem : k.stamp # FreshId}
    /\ UNCHANGED <<lp_cfg, lp_doc, lp_user, lp_runs>>
    /\ UNCHANGED otherThanLoop

\* _build_update with the merge strategy: the parsed content, and with
\* include_metadata the _ai_metadata of this work item.  The AI answers the
\* same content for the same user content.
LoopBuildUpdate(doc, item) ==
    [content |-> doc.content, enriched |-> TRUE,
     stamp |-> IF lp_cfg.include_metadata THEN item.id ELSE doc.stamp]

\* A worker executes the stream's next work item: the pipeline runs and
\* ResultWriter.write checks the key, applies the update and records the
\* key.  An update that changes the document makes a change event.
LpExecute ==
    /\ lp_stream # <<>>
    /\ LET item == Head(lp_stream)
           key == LoopKey(item.doc)
           written == LoopBuildUpdate(lp_doc, item)
       IN  /\ lp_stream' = Tail(lp_stream)
           /\ lp_runs' = IF lp_runs < MaxChain THEN lp_runs + 1 ELSE lp_runs
           /\ IF item.keyed /\ key \in lp_idem
              THEN UNCHANGED <<lp_doc, lp_events, lp_idem>>
              ELSE /\ lp_doc' = written
                   /\ lp_events' =
                        IF written = lp_doc THEN lp_events
                        ELSE Append(lp_events,
                                    [op |-> "update", doc |-> written])
                   /\ lp_idem' = IF item.keyed THEN lp_idem \cup {key}
                                 ELSE lp_idem
    /\ UNCHANGED <<lp_cfg, lp_keys, lp_user>>
    /\ UNCHANGED otherThanLoop

LoopNext ==
    \/ LpUserWrite
    \/ LpHandleChange
    \/ LpExecute

InitLoop == LoopInit /\ LoopRest

SpecLoop == InitLoop /\ [][LoopNext]_vars

\* The watcher's cursor task and the worker keep running.
FairSpecLoop ==
    /\ SpecLoop
    /\ WF_vars(LpHandleChange)
    /\ WF_vars(LpExecute)

\* C32: the chain of executions started by the user's mutation is finite:
\* from some point on no change event and no work item is left.
C32_ChainOfExecutionsEnds == <>[](lp_events = <<>> /\ lp_stream = <<>>)


\* C33: for one idempotency key at most one update is applied to the target
\* document, also when two workers run write() for duplicate deliveries of
\* the same work item at the same time.
C33_AtMostOneUpdatePerKey ==
    deduplicate =>
       \A i, j \in 1..Len(writebacks) :
          i # j => writebacks[i].item # writebacks[j].item


\* C34: a dispatch is suppressed as a duplicate only when an earlier
\* dispatch of the identical event was enqueued: a dispatch that was
\* dropped, dead-lettered or whose enqueue raised leaves no key behind.
C34_KeySeenOnlyForEnqueuedItem ==
    \A j \in 1..Len(dsp_log) :
       dsp_log[j].admission = "deduplicated" =>
          \E i \in 1..(j - 1) :
             /\ GenerateIdempotencyKey(dsp_log[i].doc) =
                   GenerateIdempotencyKey(dsp_log[j].doc)
             /\ dsp_log[i].ret = "id"


(***************************************************************************)
(* The document-hash guard of a strict writeback (ResultWriter.write)      *)
(***************************************************************************)
\* _stable_document_hash and _extract_source_document_hash: the digest of
\* the document without _ai_metadata and _mongoclaw_version.
StableDocumentHash(content, version) == <<"sha256", content>>

\* WorkItem.from_event: the work item carries the hash and the version of
\* the document the event held.
HsDispatch ==
    /\ hs_pc = "idle"
    /\ hs_items < MaxHashItems
    /\ hs_items' = hs_items + 1
    /\ hs_item' =
         [source_document_hash |-> StableDocumentHash(hs_content, hs_version),
          source_version |-> hs_version]
    /\ hs_pc' = "begin"
    /\ hs_ret' = "none"
    /\ UNCHANGED <<hs_require, hs_content, hs_version, hs_log>>
    /\ UNCHANGED otherThanHash

\* The user modifies the document: its fields change, _mongoclaw_version is
\* not the user's to set.
HsUserWrite ==
    /\ hs_content < MaxUserWrites
    /\ hs_content' = hs_content + 1
    /\ UNCHANGED <<hs_require, hs_version, hs_item, hs_pc, hs_ret, hs_items,
                   hs_log>>
    /\ UNCHANGED otherThanHash

\* Another work item's strict writeback lands: the version goes up.
HsOtherWriteback ==
    /\ hs_version < MaxOtherWrites
    /\ hs_version' = hs_version + 1
    /\ UNCHANGED <<hs_require, hs_content, hs_item, hs_pc, hs_ret, hs_items,
                   hs_log>>
    /\ UNCHANGED otherThanHash

\* _matches_source_hash: find_one, then the comparison of its hash.
MatchesSourceHash(expected_hash) ==
    StableDocumentHash(hs_content, hs_version) = expected_hash

\* write() up to the hash guard: with enforce_document_hash the target is
\* read again and a mismatch returns hash_conflict.
HsHashCheck ==
    /\ hs_pc = "begin"
    /\ IF hs_require /\ ~MatchesSourceHash(hs_item.source_document_hash)
       THEN /\ hs_ret' = "hash_conflict"
            /\ hs_pc' = "idle"
       ELSE /\ hs_pc' = "update"
            /\ UNCHANGED hs_ret
    /\ UNCHANGED <<hs_require, hs_content, hs_version, hs_item, hs_items,
                   hs_log>>
    /\ UNCHANGED otherThanHash

\* write(): update_one with _build_update_filter's strict version guard.
HsUpdate ==
    /\ hs_pc = "update"
    /\ IF hs_version = hs_item.source_version
       THEN /\ hs_version' = hs_version + 1
            /\ hs_log' = Append(hs_log,
                  [guarded |-> hs_require,
                   source_document_hash |-> hs_item.source_document_hash,
                   hash_at_update |->
                       StableDocumentHash(hs_content, hs_version)])
            /\ hs_ret' = "written"
       ELSE /\ hs_ret' = "strict_version_conflict"
            /\ UNCHANGED <<hs_version, hs_log>>
    /\ hs_pc' = "idle"
    /\ UNCHANGED <<hs_require, hs_content, hs_item, hs_items>>
    /\ UNCHANGED otherThanHash

HashNext ==
    \/ HsDispatch
    \/ HsUserWrite
    \/ HsOtherWriteback
    \/ HsHashCheck
    \/ HsUpdate

InitHash == HashInit /\ HashRest

SpecHash == InitHash /\ [][HashNext]_vars

\* C35: with require_document_hash_match under strict_post_commit an
\* update is applied only to a document whose stable content hash, at the
\* moment the update is applied, equals the item's source_document_hash.
C35_UpdateOnlyOnMatchingHash ==
    \A k \in 1..Len(hs_log) :
       hs_log[k].guarded =>
          hs_log[k].hash_at_update = hs_log[k].source_document_hash


(***************************************************************************)
(* The per-agent concurrency cap (Executor._get_agent_semaphore)           *)
(***************************************************************************)
\* The agent's max_concurrency is changed in the store.
SmChangeK ==
    /\ \E k \in SemSizes \ {sm_store_k} : sm_store_k' = k
    /\ UNCHANGED <<sm_cached_k, sm_current, sm_permits, sm_created, sm_pc,
                   sm_ref>>
    /\ UNCHANGED otherThanSem

\* _get_agent: the worker's executor has no cached agent and loads it; a
\* cached agent is returned as it is.
SmGetAgent(w) ==
    /\ sm_pc[w] = "idle"
    /\ sm_cached_k[w] = 0
    /\ sm_cached_k' = [sm_cached_k EXCEPT ![w] = sm_store_k]
    /\ UNCHANGED <<sm_store_k, sm_current, sm_permits, sm_created, sm_pc,
                   sm_ref>>
    /\ UNCHANGED otherThanSem

\* _get_agent_semaphore's test: no semaphore yet for the agent, or one of
\* another size.
NeedsNewSemaphore(existing, max_concurrency) ==
    existing = NoSemaphore \/ existing.size # max_concurrency

\* _get_agent_semaphore with the cached agent's max_concurrency: the entry
\* is kept or replaced by a new semaphore of that size, and its semaphore
\* is returned.
SmGetAgentSemaphore(w) ==
    /\ sm_pc[w] = "idle"
    /\ sm_cached_k[w] # 0
    /\ IF NeedsNewSemaphore(sm_current, sm_cached_k[w])
       THEN /\ sm_created < MaxSemaphores
            /\ sm_created' = sm_created + 1
            /\ sm_current' = [size |-> sm_cached_k[w],
                              object |-> sm_created + 1]
            /\ sm_permits' = [sm_permits EXCEPT
                                 ![sm_created + 1] = sm_cached_k[w]]
            /\ sm_ref' = [sm_ref EXCEPT ![w] = sm_created + 1]
       ELSE /\ sm_ref' = [sm_ref EXCEPT ![w] = sm_current.object]
            /\ UNCHANGED <<sm_current, sm_permits, sm_created>>
    /\ sm_pc' = [sm_pc EXCEPT ![w] = "acquire"]
    /\ UNCHANGED <<sm_store_k, sm_cached_k>>
    /\ UNCHANGED otherThanSem

\* execute(): 'async with semaphore' is entered when the semaphore the
\* worker was handed has a free permit; _execute_pipeline starts.
SmAcquire(w) ==
    /\ sm_pc[w] = "acquire"
    /\ sm_permits[sm_ref[w]] > 0
    /\ sm_permits' = [sm_permits EXCEPT ![sm_ref[w]] = @ - 1]
    /\ sm_pc' = [sm_pc EXCEPT ![w] = "pipeline"]
    /\ UNCHANGED <<sm_store_k, sm_cached_k, sm_current, sm_created, sm_ref>>
    /\ UNCHANGED otherThanSem

\* execute(): the pipeline has ended and the semaphore is released.
SmRelease(w) ==
    /\ sm_pc[w] = "pipeline"
    /\ sm_permits' = [sm_permits EXCEPT ![sm_ref[w]] = @ + 1]
    /\ sm_pc' = [sm_pc EXCEPT ![w] = "idle"]
    /\ UNCHANGED <<sm_store_k, sm_cached_k, sm_current, sm_created, sm_ref>>
    /\ UNCHANGED otherThanSem

SemNext ==
    \/ SmChangeK
    \/ \E w \in SemWorkers : SmGetAgent(w)
    \/ \E w \in SemWorkers : SmGetAgentSemaphore(w)
    \/ \E w \in SemWorkers : SmAcquire(w)
    \/ \E w \in SemWorkers : SmRelease(w)

InitSem == SemInit /\ SemRest

SpecSem == InitSem /\ [][SemNext]_vars

\* The workers that are running the agent's pipeline.
InPipeline == {w \in SemWorkers : sm_pc[w] = "pipeline"}

\* The largest max_concurrency in play: the stored one and the cached ones.
LargestCap ==
    LET ks == {sm_store_k} \cup {sm_cached_k[w] : w \in SemWorkers}
    IN CHOOSE k \in ks : \A j \in ks : j <= k

\* C36: at most K pipeline executions of the agent run at the same time in
\* the process, K being the agent's max_concurrency, also when workers
\* hold cached agents with different values of K: not even the largest K
\* in play is exceeded.
C36_AtMostKExecutionsAtOnce == Cardinality(InPipeline) <= LargestCap


\* C37: an entry whose writeback met a store error has a failure result,
\* and once its message is acked the item has been re-enqueued or moved to
\* the DLQ; it is never acked as a success with its enrichment missing.
C37_StoreErrorFailsTheItem ==
    \A m \in Entries :
       outcome[m].reason = "write_error" =>
          /\ ~outcome[m].success
          /\ Acked(m) => (ReEnqueued(m) \/ DeadLettered(m))


\* _refresh_loop keeps calling refresh_watches every five seconds, and
\* _watch_agent_configs calls it for every event of the agents collection.
FairSpecRefresh ==
    /\ SpecRefresh
    /\ \A r \in Refreshers : WF_vars(RefreshStep(r))

\* An enabled agent targets the namespace and the task stored for it in
\* _watch_tasks has left its loop.
EndedWatch(ns) ==
    /\ ns \in targets
    /\ watch_tasks[ns] # 0
    /\ \A t \in live_tasks : t.id # watch_tasks[ns]

\* C38: a namespace whose watch task has ended by itself is eventually
\* watched again, unless no enabled agent targets it any more.
C38_EndedWatchIsStartedAgain ==
    \A ns \in Namespaces :
       EndedWatch(ns) ~> (ns \notin targets \/ ~EndedWatch(ns))


\* C39: after the agent is disabled or deleted in the store, from some
\* point on every running worker fails the agent's items fast: the agent
\* its executor resolves is not an enabled one.
C39_WorkersStopExecutingDisabledAgent ==
    [](agent_state # "enabled" =>
          <>[](\A w \in Workers :
                  wk_pc[w] \notin {"stopped", "crashed"} =>
                     GetAgent(w) # "enabled"))


(***************************************************************************)
(* A work item that meets its agent's quarantine                           *)
(* (Executor.execute, AgentWorker._process_item and _handle_failure)       *)
(***************************************************************************)
QrTick ==
    /\ qr_now < MaxQuarantineClock
    /\ qr_now' = qr_now + 1
    /\ UNCHANGED <<qr_until, qr_item, qr_where, qr_result, qr_shorts,
                   qr_own_failures>>
    /\ UNCHANGED otherThanQuarantine

\* _record_agent_outcome for other items of the agent: their failures reach
\* the budget and the agent is quarantined for agent_quarantine_seconds.
QrBudgetExhausted ==
    /\ ~IsAgentQuarantined(qr_until, qr_now)
    /\ qr_until' = qr_now + QuarantineTicks
    /\ UNCHANGED <<qr_now, qr_item, qr_where, qr_result, qr_shorts,
                   qr_own_failures>>
    /\ UNCHANGED otherThanQuarantine

\* _handle_failure: an item that should be retried sleeps its backoff and
\* is re-enqueued with attempt + 1; else it is moved to the DLQ.
AfterFailure(item) == IF ShouldRetry(item) THEN "backoff" ELSE "dlq"

Saturated(n) == IF n < MaxItemFailures THEN n + 1 ELSE n

\* The worker dequeues the item and _process_item runs execute(): for a
\* quarantined agent the result is a failure with reason agent_quarantined,
\* else the pipeline runs and succeeds or fails; a result that is no
\* success goes to _handle_failure.
QrProcessItem ==
    /\ qr_where = "stream"
    /\ IF IsAgentQuarantined(qr_until, qr_now)
       THEN /\ qr_result' = "agent_quarantined"
            /\ qr_shorts' = Saturated(qr_shorts)
            /\ qr_where' = AfterFailure(qr_item)
            /\ UNCHANGED qr_own_failures
       ELSE \E success \in BOOLEAN :
              IF success
              THEN /\ qr_result' = "written"
                   /\ qr_where' = "done"
                   /\ UNCHANGED <<qr_shorts, qr_own_failures>>
              ELSE /\ qr_result' = "pipeline_error"
                   /\ qr_own_failures' = Saturated(qr_own_failures)
                   /\ qr_where' = AfterFailure(qr_item)
                   /\ UNCHANGED qr_shorts
    /\ UNCHANGED <<qr_now, qr_until, qr_item>>
    /\ UNCHANGED otherThanQuarantine

\* _handle_failure after its sleep: the copy with attempt + 1 is enqueued
\* and the original message acked.
QrReenqueue ==
    /\ qr_where = "backoff"
    /\ qr_item' = IncrementAttempt(qr_item)
    /\ qr_where' = "stream"
    /\ UNCHANGED <<qr_now, qr_until, qr_result, qr_shorts, qr_own_failures>>
    /\ UNCHANGED otherThanQuarantine

QuarantineNext ==
    \/ QrTick
    \/ QrBudgetExhausted
    \/ QrProcessItem
    \/ QrReenqueue

InitQuarantine == QuarantineInit /\ QuarantineRest

SpecQuarantine == InitQuarantine /\ [][QuarantineNext]_vars

\* C40: quarantine short-circuits alone use up none of the item's retry
\* attempts and never move it to the DLQ: an item whose own pipeline has
\* not failed is still at attempt 0 and not on the DLQ.
C40_QuarantineUsesNoAttempts ==
    qr_own_failures = 0 => (qr_item.attempt = 0 /\ qr_where # "dlq")

====
